---- MODULE Spec2Model ----
(***************************************************************************)
(* Model of the status pipelines, the duplicate detector and the CSV       *)
(* ingestion of the Spanner CRM backend (src/backend/app).                 *)
(*                                                                         *)
(* The relational store is modelled by three tables kept as sequences in   *)
(* creation order (the position of a row is its id, and the order of the   *)
(* positions is the order of created_at).  A text value is a sequence of   *)
(* one-character strings, so that lower(), strip() and the concatenation   *)
(* of the duplicate key are computed and not assumed.                      *)
(***************************************************************************)
EXTENDS Integers, Sequences, FiniteSets, TLC

VARIABLES companies, contacts, batches, requests, response,
          users, assignments, token, current_user

vars == <<companies, contacts, batches, requests, response,
          users, assignments, token, current_user>>

-----------------------------------------------------------------------------
(* Bounds of the model *)

MaxCompanies == 2
MaxContacts == 2
MaxBatches == 1
MaxRows == 3
MaxRequests == 3
MaxAssignments == 1

-----------------------------------------------------------------------------
(* Text values *)

\* Python None for a nullable column or an absent cell
NULL == <<"NULL">>

\* the empty str ''
EMPTY == <<>>

\* str.lower() on one character
LowerChar(ch) ==
    IF ch = "A" THEN "a"
    ELSE IF ch = "B" THEN "b"
    ELSE IF ch = "D" THEN "d"
    ELSE IF ch = "E" THEN "e"
    ELSE IF ch = "W" THEN "w"
    ELSE ch

\* str.lower()
lower(s) == [i \in 1..Len(s) |-> LowerChar(s[i])]

RECURSIVE lstrip(_)
lstrip(s) == IF s # <<>> /\ Head(s) = " " THEN lstrip(Tail(s)) ELSE s

RECURSIVE rstrip(_)
rstrip(s) ==
    IF s # <<>> /\ s[Len(s)] = " " THEN rstrip(SubSeq(s, 1, Len(s) - 1)) ELSE s

\* str.strip()
strip(s) == rstrip(lstrip(s))

\* truthiness of an optional str: None and '' are falsy
Truthy(s) == s # NULL /\ s # EMPTY

-----------------------------------------------------------------------------
(* Enumerations *)

\* CompanyStatusEnum
PENDING == "pending"
APPROVED == "approved"
REJECTED == "rejected"
CompanyStatusEnum == {PENDING, APPROVED, REJECTED}

\* ContactStatusEnum
UPLOADED == "uploaded"
ASSIGNED_TO_SDR == "assigned_to_sdr"
MEETING_SCHEDULED == "meeting_scheduled"
ContactStatusEnum == {UPLOADED, APPROVED, ASSIGNED_TO_SDR, MEETING_SCHEDULED}

\* BatchStatusEnum
PROCESSING == "processing"
COMPLETED == "completed"
FAILED == "failed"

\* a nullable reference (batch_id, assigned_sdr_id, company_id of a request)
NoId == 0

-----------------------------------------------------------------------------
(* Rows *)

\* Company(...) as constructed by create_company and process_company_csv
Company(name, website, segment_id, batch_id) ==
    [company_name |-> name,
     company_website |-> website,
     segment_id |-> segment_id,
     status |-> PENDING,
     rejection_reason |-> NULL,
     is_duplicate |-> FALSE,
     batch_id |-> batch_id,
     approved_by |-> NoId,
     approved_at |-> NULL]

\* Contact(...) as constructed by create_contact and process_contact_csv
Contact(email, company_id, segment_id, batch_id) ==
    [email |-> email,
     company_id |-> company_id,
     segment_id |-> segment_id,
     status |-> UPLOADED,
     assigned_sdr_id |-> NoId,
     is_duplicate |-> FALSE,
     batch_id |-> batch_id]

\* select(Company).where(Company.id == company_id): the row or None
get_company(cs, company_id) ==
    IF company_id \in 1..Len(cs) THEN company_id ELSE NoId

\* select(Contact).where(Contact.id == contact_id): the row or None
get_contact(ct, contact_id) ==
    IF contact_id \in 1..Len(ct) THEN contact_id ELSE NoId

-----------------------------------------------------------------------------
(* Users *)

\* UserRoleEnum
ADMIN == "admin"
SEGMENT_OWNER == "segment_owner"
RESEARCHER == "researcher"
APPROVER == "approver"
SDR == "sdr"
MARKETING == "marketing"
UserRoleEnum == {ADMIN, SEGMENT_OWNER, RESEARCHER, APPROVER, SDR, MARKETING}

\* UserStatusEnum
ACTIVE == "active"
DEACTIVATED == "deactivated"

\* a row of users with the roles of its user_roles rows
User(roles, status) == [roles |-> roles, status |-> status]

\* the users table: one active user per role, as the end-to-end flow logs
\* in, and a deactivated administrator
UserRows ==
    <<User({ADMIN}, ACTIVE), User({SEGMENT_OWNER}, ACTIVE),
      User({RESEARCHER}, ACTIVE), User({APPROVER}, ACTIVE),
      User({SDR}, ACTIVE), User({MARKETING}, ACTIVE),
      User({ADMIN}, DEACTIVATED)>>

\* select(User).where(User.id == user_id): the row or None
get_user_by_id(us, user_id) ==
    IF user_id \in 1..Len(us) THEN user_id ELSE NoId

-----------------------------------------------------------------------------
(* Duplicate detector *)

\* the separator of the f-string key
SEP == <<"|", "|">>

name_key(company) ==
    IF Truthy(company.company_name) THEN strip(lower(company.company_name)) ELSE EMPTY

website_key(company) ==
    IF Truthy(company.company_website) THEN strip(lower(company.company_website)) ELSE EMPTY

\* key = f"{name_key}||{website_key}"
CompanyKey(company) == name_key(company) \o SEP \o website_key(company)

\* a detector that counts every later occurrence, marked before or not
NewlyMarked_Always(is_duplicate) == 1

\* the increment of duplicates_marked for a later occurrence of a key: only
\* a company that was not marked yet is counted
NewlyMarked(is_duplicate) == IF ~is_duplicate THEN 1 ELSE 0

\* the loop of detect_company_duplicates over the rows of the segment in
\* created_at order; seen is the set of keys of the dict
RECURSIVE DetectCompanyLoop(_, _, _, _, _)
DetectCompanyLoop(cs, segment_id, i, seen, duplicates_marked) ==
    IF i > Len(cs)
    THEN [companies |-> cs, duplicates_marked |-> duplicates_marked]
    ELSE IF cs[i].segment_id # segment_id
    THEN DetectCompanyLoop(cs, segment_id, i + 1, seen, duplicates_marked)
    ELSE LET key == CompanyKey(cs[i]) IN
         IF key \in seen
         THEN DetectCompanyLoop([cs EXCEPT ![i].is_duplicate = TRUE],
                                segment_id, i + 1, seen,
                                duplicates_marked + NewlyMarked(cs[i].is_duplicate))
         ELSE IF cs[i].is_duplicate
              THEN DetectCompanyLoop([cs EXCEPT ![i].is_duplicate = FALSE],
                                     segment_id, i + 1, seen \cup {key}, duplicates_marked)
              ELSE DetectCompanyLoop(cs, segment_id, i + 1, seen \cup {key}, duplicates_marked)

\* detect_company_duplicates(db, segment_id): the rows after the flush and
\* the returned count
detect_company_duplicates(cs, segment_id) ==
    DetectCompanyLoop(cs, segment_id, 1, {}, 0)

\* email_key of detect_contact_duplicates
email_key(contact) ==
    IF Truthy(contact.email) THEN strip(lower(contact.email)) ELSE EMPTY

RECURSIVE DetectContactLoop(_, _, _, _, _)
DetectContactLoop(ct, company_id, i, seen, duplicates_marked) ==
    IF i > Len(ct)
    THEN [contacts |-> ct, duplicates_marked |-> duplicates_marked]
    ELSE IF ct[i].company_id # company_id
    THEN DetectContactLoop(ct, company_id, i + 1, seen, duplicates_marked)
    ELSE LET key == email_key(ct[i]) IN
         IF key \in seen
         THEN IF ~ct[i].is_duplicate
              THEN DetectContactLoop([ct EXCEPT ![i].is_duplicate = TRUE],
                                     company_id, i + 1, seen, duplicates_marked + 1)
              ELSE DetectContactLoop(ct, company_id, i + 1, seen, duplicates_marked)
         ELSE IF ct[i].is_duplicate
              THEN DetectContactLoop([ct EXCEPT ![i].is_duplicate = FALSE],
                                     company_id, i + 1, seen \cup {key}, duplicates_marked)
              ELSE DetectContactLoop(ct, company_id, i + 1, seen \cup {key}, duplicates_marked)

\* detect_contact_duplicates(db, company_id)
detect_contact_duplicates(ct, company_id) ==
    DetectContactLoop(ct, company_id, 1, {}, 0)

-----------------------------------------------------------------------------
(* Outcome of the last handler *)

OK == "ok"
NOT_FOUND == "not_found"
INVALID_TRANSITION == "invalid_transition"
INVALID_INPUT == "invalid_input"
VALIDATION_ERROR == "validation_error"
INTEGRITY_ERROR == "integrity_error"
SERVER_ERROR == "server_error"

Response(op, id, arg, error, ret) ==
    [op |-> op, id |-> id, arg |-> arg, error |-> error, ret |-> ret]

NoResponse == Response("none", NoId, <<>>, OK, 0)

-----------------------------------------------------------------------------
(* Constraints of the companies and contacts tables, checked by a flush *)

\* UniqueConstraint("company_name", "company_website", "segment_id"); a NULL
\* website never collides
unique_company_per_segment(cs) ==
    \A i, j \in 1..Len(cs) :
        (i # j /\ cs[i].company_website # NULL
              /\ cs[i].company_name = cs[j].company_name
              /\ cs[i].company_website = cs[j].company_website)
            => cs[i].segment_id # cs[j].segment_id

\* nullable=False on company_name and segment_id
CompanyNotNull(cs) ==
    \A i \in 1..Len(cs) : cs[i].company_name # NULL /\ cs[i].segment_id # NoId

CompanyFlushOk(cs) == unique_company_per_segment(cs) /\ CompanyNotNull(cs)

\* UniqueConstraint("email", "company_id")
unique_contact_per_company(ct) ==
    \A i, j \in 1..Len(ct) :
        (i # j /\ ct[i].email = ct[j].email) => ct[i].company_id # ct[j].company_id

\* nullable=False and the foreign key of company_id, nullable=False of
\* email and segment_id
ContactNotNull(ct, cs) ==
    \A i \in 1..Len(ct) :
        /\ ct[i].email # NULL
        /\ ct[i].company_id \in 1..Len(cs)
        /\ ct[i].segment_id # NoId

ContactFlushOk(ct, cs) == unique_contact_per_company(ct) /\ ContactNotNull(ct, cs)

-----------------------------------------------------------------------------
(* company_service *)

\* create_company(db, data, created_by); data is a validated CompanyCreate
create_company(data) ==
    LET company == Company(data.company_name, data.company_website,
                           data.segment_id, NoId)
        added == Append(companies, company)
    IN  /\ IF CompanyFlushOk(added)
           THEN /\ companies' = added
                /\ response' = Response("create_company", Len(added), <<>>, OK, 0)
           ELSE /\ companies' = companies
                /\ response' = Response("create_company", NoId, <<>>, INTEGRITY_ERROR, 0)
        /\ UNCHANGED <<contacts, batches, requests, users, assignments>>

\* the setattr loop of update_company / update_contact over
\* data.model_dump(exclude_unset=True); data is a function from the names of
\* the fields the body sets to their values
SetFields(row, data) ==
    [f \in DOMAIN row |-> IF f \in DOMAIN data THEN data[f] ELSE row[f]]

\* CompanyUpdate(**body): the schema declares neither status nor
\* rejection_reason nor is_duplicate, and fields it does not declare are
\* ignored
CompanyUpdateFields == {"company_name", "company_website", "segment_id"}

CompanyUpdate(body) ==
    [f \in (DOMAIN body) \cap CompanyUpdateFields |-> body[f]]

\* PATCH /companies/{company_id}: update_company(db, company_id, data) with
\* data the CompanyUpdate of the request body
update_company(company_id, body) ==
    LET company == get_company(companies, company_id)
        data == CompanyUpdate(body)
    IN
    /\ IF company = NoId
       THEN /\ companies' = companies
            /\ response' = Response("update_company", company_id, <<>>, NOT_FOUND, 0)
       ELSE LET updated == [companies EXCEPT ![company] = SetFields(@, data)] IN
            IF CompanyFlushOk(updated)
            THEN /\ companies' = updated
                 /\ response' = Response("update_company", company_id, <<>>, OK, 0)
            ELSE /\ companies' = companies
                 /\ response' = Response("update_company", company_id, <<>>, INTEGRITY_ERROR, 0)
    /\ UNCHANGED <<contacts, batches, requests, users, assignments>>

\* CompanyApproval.model_post_init: the decisions the schema accepts
CompanyApprovalValid(approval) ==
    /\ approval.status # PENDING
    /\ ~(approval.status = REJECTED /\ ~Truthy(approval.rejection_reason))
    /\ ~(approval.status # REJECTED /\ Truthy(approval.rejection_reason))

\* approve_company without its status check
ApproveCompanyError_Unchecked(company_status) == OK

\* the status check of approve_company on the row it loaded: only pending
\* companies can be approved or rejected
ApproveCompanyError(company_status) ==
    IF company_status # PENDING THEN INVALID_TRANSITION ELSE OK

\* datetime.now(timezone.utc), a non-null timestamp
NOW == <<"n", "o", "w">>

\* the writes of approve_company; approved_by is None unless the caller
\* passes it
ApproveCompanyWrite(company, approval, approved_by) ==
    [company EXCEPT !.status = approval.status,
                    !.rejection_reason = approval.rejection_reason,
                    !.approved_by = IF approved_by # NoId THEN approved_by ELSE @,
                    !.approved_at = IF approved_by # NoId THEN NOW ELSE @]

\* approve_company(db, company_id, approval, approved_by), behind the
\* validation of the request body by CompanyApproval
approve_company(company_id, approval, approved_by) ==
    LET company == get_company(companies, company_id) IN
    /\ IF ~CompanyApprovalValid(approval)
       THEN /\ companies' = companies
            /\ response' = Response("approve_company", company_id, approval,
                                    VALIDATION_ERROR, 0)
       ELSE IF company = NoId
       THEN /\ companies' = companies
            /\ response' = Response("approve_company", company_id, approval, NOT_FOUND, 0)
       ELSE IF ApproveCompanyError(companies[company].status) # OK
       THEN /\ companies' = companies
            /\ response' = Response("approve_company", company_id, approval,
                                    INVALID_TRANSITION, 0)
       ELSE /\ companies' = [companies EXCEPT
                                ![company] = ApproveCompanyWrite(@, approval,
                                                                 approved_by)]
            /\ response' = Response("approve_company", company_id, approval, OK, 0)
    /\ UNCHANGED <<contacts, batches, requests, users, assignments>>

\* company_service.mark_duplicate(db, company_id, is_duplicate)
company_mark_duplicate(company_id, is_duplicate) ==
    LET company == get_company(companies, company_id) IN
    /\ IF company = NoId
       THEN /\ companies' = companies
            /\ response' = Response("company_mark_duplicate", company_id, <<>>, NOT_FOUND, 0)
       ELSE /\ companies' = [companies EXCEPT ![company].is_duplicate = is_duplicate]
            /\ response' = Response("company_mark_duplicate", company_id, <<>>, OK, 0)
    /\ UNCHANGED <<contacts, batches, requests, users, assignments>>

-----------------------------------------------------------------------------
(* The request transaction *)

\* get_db: the session of a request is committed when the handler returns
\* and rolled back when it raises, so that a failed request leaves the
\* committed rows as they were
RequestTransaction(before, after, raised) == IF raised THEN before ELSE after

-----------------------------------------------------------------------------
(* contact_service *)

\* create_contact(db, data, created_by); data is a validated ContactCreate
create_contact(data) ==
    LET company == get_company(companies, data.company_id) IN
    /\ IF company = NoId
       THEN /\ contacts' = contacts
            /\ response' = Response("create_contact", NoId, <<>>, NOT_FOUND, 0)
       ELSE LET contact == Contact(data.email, data.company_id,
                                   companies[company].segment_id, NoId)
                added == Append(contacts, contact)
            IN  IF ContactFlushOk(added, companies)
                THEN /\ contacts' = added
                     /\ response' = Response("create_contact", Len(added), <<>>, OK, 0)
                ELSE /\ contacts' = contacts
                     /\ response' = Response("create_contact", NoId, <<>>,
                                             INTEGRITY_ERROR, 0)
    /\ UNCHANGED <<companies, batches, requests, users, assignments>>

\* ContactUpdate(**body): the schema declares neither status nor
\* assigned_sdr_id nor is_duplicate nor segment_id
\* a ContactUpdate that declared the fields of the pipeline too
ContactUpdateFields_WithPipeline ==
    {"email", "company_id", "status", "is_duplicate", "assigned_sdr_id"}

\* ContactUpdate(**body): the fields the schema declares; any other field
\* of the body is ignored
ContactUpdateFields == {"email", "company_id"}

ContactUpdate(body) ==
    [f \in (DOMAIN body) \cap ContactUpdateFields |-> body[f]]

\* PATCH /contacts/{contact_id}: update_contact(db, contact_id, data) with
\* data the ContactUpdate of the request body
update_contact(contact_id, body) ==
    LET contact == get_contact(contacts, contact_id)
        data == ContactUpdate(body)
    IN
    /\ IF contact = NoId
       THEN /\ contacts' = contacts
            /\ response' = Response("update_contact", contact_id, <<>>, NOT_FOUND, 0)
       ELSE LET updated == [contacts EXCEPT ![contact] = SetFields(@, data)] IN
            IF ContactFlushOk(updated, companies)
            THEN /\ contacts' = updated
                 /\ response' = Response("update_contact", contact_id, <<>>, OK, 0)
            ELSE /\ contacts' = contacts
                 /\ response' = Response("update_contact", contact_id, data,
                                         INTEGRITY_ERROR, 0)
    /\ UNCHANGED <<companies, batches, requests, users, assignments>>

\* the checks of approve_contact on the row it loaded: the error it raises
ApproveContactError(contact_status, approval) ==
    IF approval.status # APPROVED THEN INVALID_INPUT
    ELSE IF contact_status # UPLOADED THEN INVALID_TRANSITION
    ELSE OK

\* approve_contact(db, contact_id, approval)
approve_contact(contact_id, approval) ==
    LET contact == get_contact(contacts, contact_id)
        error == IF contact = NoId THEN NOT_FOUND
                 ELSE ApproveContactError(contacts[contact].status, approval)
    IN  /\ contacts' = IF error = OK
                       THEN [contacts EXCEPT ![contact].status = APPROVED]
                       ELSE contacts
        /\ response' = Response("approve_contact", contact_id, approval, error, 0)
        /\ UNCHANGED <<companies, batches, requests, users, assignments>>

\* assign_to_sdr accepting a contact that was not approved yet
AssignError_FromUploaded(contact_status) ==
    IF contact_status \notin {UPLOADED, APPROVED} THEN INVALID_TRANSITION ELSE OK

\* the check of assign_to_sdr on the row it loaded
AssignError(contact_status) ==
    IF contact_status # APPROVED THEN INVALID_TRANSITION ELSE OK

\* the writes of assign_to_sdr
AssignWrite(contact, sdr_id) ==
    [contact EXCEPT !.assigned_sdr_id = sdr_id, !.status = ASSIGNED_TO_SDR]

\* assign_to_sdr(db, contact_id, sdr_id) on the rows ct: the rows after it
\* and the error it raised
AssignToSdr(ct, contact_id, sdr_id) ==
    LET contact == get_contact(ct, contact_id)
        error == IF contact = NoId THEN NOT_FOUND ELSE AssignError(ct[contact].status)
    IN  [contacts |-> IF error = OK
                      THEN [ct EXCEPT ![contact] = AssignWrite(@, sdr_id)]
                      ELSE ct,
         error |-> error]

assign_to_sdr(contact_id, sdr_id) ==
    LET result == AssignToSdr(contacts, contact_id, sdr_id) IN
    /\ contacts' = result.contacts
    /\ response' = Response("assign_to_sdr", contact_id, sdr_id, result.error, 0)
    /\ UNCHANGED <<companies, batches, requests, users, assignments>>

\* a loop that passes over the contacts it cannot assign
RECURSIVE BulkAssignLoop_SkipsFailed(_, _, _)
BulkAssignLoop_SkipsFailed(ct, contact_ids, sdr_id) ==
    IF contact_ids = <<>>
    THEN [contacts |-> ct, error |-> OK]
    ELSE BulkAssignLoop_SkipsFailed(AssignToSdr(ct, Head(contact_ids), sdr_id).contacts,
                                    Tail(contact_ids), sdr_id)

\* the loop of bulk_assign_to_sdr: it stops at the first assign_to_sdr that
\* raises
RECURSIVE BulkAssignLoop(_, _, _)
BulkAssignLoop(ct, contact_ids, sdr_id) ==
    IF contact_ids = <<>>
    THEN [contacts |-> ct, error |-> OK]
    ELSE LET result == AssignToSdr(ct, Head(contact_ids), sdr_id) IN
         IF result.error # OK
         THEN result
         ELSE BulkAssignLoop(result.contacts, Tail(contact_ids), sdr_id)

\* bulk_assign_to_sdr(db, contact_ids, sdr_id)
bulk_assign_to_sdr(contact_ids, sdr_id) ==
    LET result == BulkAssignLoop(contacts, contact_ids, sdr_id) IN
    /\ contacts' = RequestTransaction(contacts, result.contacts, result.error # OK)
    /\ response' = Response("bulk_assign_to_sdr", NoId,
                            [contact_ids |-> contact_ids, sdr_id |-> sdr_id],
                            result.error, 0)
    /\ UNCHANGED <<companies, batches, requests, users, assignments>>

\* the check of mark_meeting_scheduled on the row it loaded
MeetingError(contact_status) ==
    IF contact_status # ASSIGNED_TO_SDR THEN INVALID_TRANSITION ELSE OK

\* mark_meeting_scheduled(db, contact_id)
mark_meeting_scheduled(contact_id) ==
    LET contact == get_contact(contacts, contact_id)
        error == IF contact = NoId THEN NOT_FOUND
                 ELSE MeetingError(contacts[contact].status)
    IN  /\ contacts' = IF error = OK
                       THEN [contacts EXCEPT ![contact].status = MEETING_SCHEDULED]
                       ELSE contacts
        /\ response' = Response("mark_meeting_scheduled", contact_id, <<>>, error, 0)
        /\ UNCHANGED <<companies, batches, requests, users, assignments>>

\* contact_service.mark_duplicate(db, contact_id, is_duplicate)
contact_mark_duplicate(contact_id, is_duplicate) ==
    LET contact == get_contact(contacts, contact_id) IN
    /\ IF contact = NoId
       THEN /\ contacts' = contacts
            /\ response' = Response("contact_mark_duplicate", contact_id, <<>>,
                                    NOT_FOUND, 0)
       ELSE /\ contacts' = [contacts EXCEPT ![contact].is_duplicate = is_duplicate]
            /\ response' = Response("contact_mark_duplicate", contact_id, <<>>,
                                    OK, 0)
    /\ UNCHANGED <<companies, batches, requests, users, assignments>>

-----------------------------------------------------------------------------
(* upload_service: CSV ingestion *)

\* A file is the sequence of its data rows as csv.DictReader yields them: a
\* row maps each column of the header to the text of its cell, or to None
\* (NULL) when the row is too short to have that cell.

\* the cell after value.strip() and the conversion of '' to None
FilteredCell(value) ==
    IF value = NULL THEN NULL
    ELSE IF strip(value) = EMPTY THEN NULL
    ELSE strip(value)

\* UploadError(row_number, field, error)
UploadError(row_number, field) == [row_number |-> row_number, field |-> field]

\* CompanyCreate(**filtered_row): company_name is required, min_length=1
CompanyCreateValid(filtered_row) == filtered_row.company_name # NULL

\* the row loop of process_company_csv; row_number starts at 2
RECURSIVE CompanyRowLoop(_, _, _, _, _)
CompanyRowLoop(rows, row_number, segment_id, batch_id, acc) ==
    IF rows = <<>>
    THEN acc
    ELSE LET row == Head(rows)
             filtered_row == [company_name |-> FilteredCell(row.company_name),
                              company_website |-> FilteredCell(row.company_website)]
         IN  IF CompanyCreateValid(filtered_row)
             THEN CompanyRowLoop(Tail(rows), row_number + 1, segment_id, batch_id,
                    [acc EXCEPT !.total_rows = @ + 1,
                                !.valid_rows = @ + 1,
                                !.added = Append(@, Company(filtered_row.company_name,
                                                            filtered_row.company_website,
                                                            segment_id, batch_id))])
             ELSE CompanyRowLoop(Tail(rows), row_number + 1, segment_id, batch_id,
                    [acc EXCEPT !.total_rows = @ + 1,
                                !.invalid_rows = @ + 1,
                                !.errors = Append(@, UploadError(row_number,
                                                                 "company_name"))])

\* the counters and lists of a row loop before its first row
RowLoopStart ==
    [total_rows |-> 0, valid_rows |-> 0, invalid_rows |-> 0,
     errors |-> <<>>, added |-> <<>>, contact_company_id |-> NoId, raised |-> FALSE]

\* create_batch(db, upload_type, ...): the batch as its flush stores it
create_batch(upload_type) ==
    [upload_type |-> upload_type, total_rows |-> 0, valid_rows |-> 0,
     invalid_rows |-> 0, status |-> PROCESSING]

\* batch statistics that call every batch completed
UploadBatch_AlwaysCompleted(upload_type, acc) ==
    [upload_type |-> upload_type,
     total_rows |-> acc.total_rows,
     valid_rows |-> acc.valid_rows,
     invalid_rows |-> acc.invalid_rows,
     status |-> COMPLETED]

\* UploadBatch with the statistics written after the loop
UploadBatch(upload_type, acc) ==
    [upload_type |-> upload_type,
     total_rows |-> acc.total_rows,
     valid_rows |-> acc.valid_rows,
     invalid_rows |-> acc.invalid_rows,
     status |-> IF acc.invalid_rows = 0 THEN COMPLETED ELSE FAILED]

\* process_company_csv(db, file, segment_id, created_by): the tables after
\* it, whether it raised, and what it returned.  The rows are added to the
\* session in the loop and inserted by the one flush after it, so a row
\* that violates a constraint raises there, outside the try of its row: the
\* failed flush rolls the transaction back, batch included, and the detector
\* does not run.
process_company_csv(file, segment_id) ==
    LET batch_id == Len(batches) + 1
        acc == CompanyRowLoop(file, 2, segment_id, batch_id, RowLoopStart)
        flushed == companies \o acc.added
        raised == ~CompanyFlushOk(flushed)
    IN  [companies |-> IF raised THEN companies
                       ELSE IF acc.valid_rows > 0
                       THEN detect_company_duplicates(flushed, segment_id).companies
                       ELSE flushed,
         batches |-> IF raised THEN batches
                     ELSE Append(batches, UploadBatch("company", acc)),
         raised |-> raised,
         batch_id |-> batch_id,
         added |-> acc.added,
         errors |-> acc.errors]

\* An UploadFile is modelled by its filename, the size of its content in
\* bytes and the data rows of the content.

\* the 10MB limit of the handlers
MaxUploadBytes == 10 * 1024 * 1024

\* s.endswith(suffix)
endswith(s, suffix) ==
    /\ Len(s) >= Len(suffix)
    /\ SubSeq(s, Len(s) - Len(suffix) + 1, Len(s)) = suffix

DotCsv == <<".", "c", "s", "v">>

UploadFile(filename, size, rows) ==
    [filename |-> filename, size |-> size, rows |-> rows]

\* a file the checks of the handlers let pass, of the largest size allowed
CsvUpload(rows) == UploadFile(<<"f">> \o DotCsv, MaxUploadBytes, rows)

\* the checks without the limit on the size
UploadFileError_NoSizeCap(upload) ==
    IF ~Truthy(upload.filename) \/ ~endswith(upload.filename, DotCsv)
    THEN INVALID_INPUT
    ELSE IF upload.size = 0 THEN INVALID_INPUT
    ELSE OK

\* the checks of upload_companies and upload_contacts on the file, made
\* before process_company_csv / process_contact_csv is called: the 400 they
\* raise
UploadFileError(upload) ==
    IF ~Truthy(upload.filename) \/ ~endswith(upload.filename, DotCsv)
    THEN INVALID_INPUT
    ELSE IF upload.size > MaxUploadBytes THEN INVALID_INPUT
    ELSE IF upload.size = 0 THEN INVALID_INPUT
    ELSE OK

\* POST /uploads/companies: upload_companies around process_company_csv
upload_companies(upload, segment_id) ==
    LET file == upload.rows
        arg == [file |-> file, segment_id |-> segment_id,
                filename |-> upload.filename, size |-> upload.size]
    IN
    IF UploadFileError(upload) # OK
    THEN /\ response' = Response("upload_companies", NoId, arg, INVALID_INPUT, <<>>)
         /\ UNCHANGED <<companies, contacts, batches, requests, users, assignments>>
    ELSE
    \E result \in {process_company_csv(file, segment_id)} :
    /\ companies' = RequestTransaction(companies, result.companies, result.raised)
    /\ batches' = RequestTransaction(batches, result.batches, result.raised)
    /\ response' = IF result.raised
                   THEN Response("upload_companies", NoId, arg, SERVER_ERROR, <<>>)
                   ELSE Response("upload_companies", result.batch_id, arg,
                                 OK, result.errors)
    /\ UNCHANGED <<contacts, requests, users, assignments>>

\* EmailStr accepts local@domain with both parts non-empty and without
\* blanks: the position of the "@" of a valid address, 0 otherwise
AtPosition(email) ==
    IF \E i \in 2..(Len(email) - 1) :
          /\ email[i] = "@"
          /\ \A j \in 1..Len(email) : j # i => email[j] \notin {"@", " "}
    THEN CHOOSE i \in 2..(Len(email) - 1) : email[i] = "@"
    ELSE 0

\* EmailStr returns the normalized address: the domain in lower case
EmailStr(email) ==
    LET at == AtPosition(email) IN
    SubSeq(email, 1, at) \o lower(SubSeq(email, at + 1, Len(email)))

\* ContactCreate(**filtered_row): first_name and email are required, email
\* is an EmailStr
ContactCreateValid(filtered_row) ==
    /\ filtered_row.first_name # NULL
    /\ filtered_row.email # NULL
    /\ AtPosition(filtered_row.email) # 0

\* the errors of the ValidationError of ContactCreate, one per failing field
ContactCreateErrors(row_number, filtered_row) ==
    (IF filtered_row.first_name = NULL
     THEN <<UploadError(row_number, "first_name")>> ELSE <<>>)
    \o (IF filtered_row.email = NULL \/ AtPosition(filtered_row.email) = 0
        THEN <<UploadError(row_number, "email")>> ELSE <<>>)

\* the keys of company_lookup: company.company_name.lower().strip()
LookupKey(company) == strip(lower(company.company_name))

\* company_lookup of process_contact_csv: a dict from the normalized name to
\* one company of the segment.  The query has no ORDER BY, so when several
\* companies of the segment share a normalized name the one the dict keeps
\* is any of them.
CompanyLookups(cs, segment_id, company_id) ==
    LET ids == IF segment_id # NoId /\ company_id = NoId
               THEN {i \in 1..Len(cs) : cs[i].segment_id = segment_id}
               ELSE {}
        keys == {LookupKey(cs[i]) : i \in ids}
    IN  {lookup \in [keys -> ids] : \A k \in keys : LookupKey(cs[lookup[k]]) = k}

\* the row loop of process_contact_csv; acc.contact_company_id is the value
\* the variable holds after the last iteration, acc.raised says that
\* row.get('company_name', '').strip() met a None cell
RECURSIVE ContactRowLoop(_, _, _, _, _, _, _, _)
ContactRowLoop(rows, row_number, company_id, segment_id, lookup, cs, batch_id, acc) ==
    IF rows = <<>> \/ acc.raised
    THEN acc
    ELSE LET row == Head(rows)
             filtered_row == [first_name |-> FilteredCell(row.first_name),
                              email |-> FilteredCell(row.email)]
             counted == [acc EXCEPT !.total_rows = @ + 1]
             next(a) == ContactRowLoop(Tail(rows), row_number + 1, company_id,
                                       segment_id, lookup, cs, batch_id, a)
             validated(contact_company_id, contact_segment_id) ==
                 IF ContactCreateValid(filtered_row)
                 THEN next([counted EXCEPT
                        !.valid_rows = @ + 1,
                        !.contact_company_id = contact_company_id,
                        !.added = Append(@, Contact(EmailStr(filtered_row.email),
                                                    contact_company_id,
                                                    contact_segment_id, batch_id))])
                 ELSE next([counted EXCEPT
                        !.invalid_rows = @ + 1,
                        !.contact_company_id = contact_company_id,
                        !.errors = @ \o ContactCreateErrors(row_number, filtered_row)])
         IN  IF company_id # NoId
             THEN validated(company_id, segment_id)
             ELSE IF row.company_name = NULL
             THEN [counted EXCEPT !.raised = TRUE]
             ELSE LET company_name_raw == strip(row.company_name) IN
                  IF company_name_raw # EMPTY /\ lower(company_name_raw) \in DOMAIN lookup
                  THEN validated(lookup[lower(company_name_raw)],
                                 cs[lookup[lower(company_name_raw)]].segment_id)
                  ELSE next([counted EXCEPT
                         !.invalid_rows = @ + 1,
                         !.contact_company_id = NoId,
                         !.errors = Append(@, UploadError(row_number, "company_name"))])

\* process_contact_csv(db, file, company_id, segment_id, created_by) with
\* the company_lookup it built.  When the loop raises, the session holds the
\* batch as create_batch stored it and the contacts added so far; when the
\* flush after the loop raises, the transaction is rolled back.
process_contact_csv(file, company_id, segment_id, lookup) ==
    LET batch_id == Len(batches) + 1
        company_row == get_company(companies, company_id)
        segment == IF company_id # NoId /\ segment_id = NoId /\ company_row # NoId
                   THEN companies[company_row].segment_id
                   ELSE segment_id
        acc == ContactRowLoop(file, 2, company_id, segment, lookup, companies,
                              batch_id, RowLoopStart)
        flushed == contacts \o acc.added
        flush_raised == ~acc.raised /\ ~ContactFlushOk(flushed, companies)
        raised == acc.raised \/ flush_raised
    IN  [contacts |-> IF flush_raised THEN contacts
                      ELSE IF acc.raised THEN flushed
                      ELSE IF acc.valid_rows > 0 /\ acc.contact_company_id # NoId
                      THEN detect_contact_duplicates(flushed,
                                                     acc.contact_company_id).contacts
                      ELSE flushed,
         batches |-> IF flush_raised THEN batches
                     ELSE IF acc.raised THEN Append(batches, create_batch("contact"))
                     ELSE Append(batches, UploadBatch("contact", acc)),
         raised |-> raised,
         batch_id |-> batch_id,
         added |-> acc.added,
         errors |-> acc.errors]

\* POST /uploads/contacts: upload_contacts around process_contact_csv
upload_contacts(upload, company_id, segment_id) ==
    LET file == upload.rows
        arg == [file |-> file, company_id |-> company_id,
                segment_id |-> segment_id,
                filename |-> upload.filename, size |-> upload.size]
    IN
    /\ IF (company_id = NoId /\ segment_id = NoId) \/ UploadFileError(upload) # OK
       THEN /\ response' = Response("upload_contacts", NoId, arg, INVALID_INPUT, <<>>)
            /\ UNCHANGED <<contacts, batches>>
       ELSE
       LET segment == IF company_id # NoId /\ segment_id = NoId
                         /\ get_company(companies, company_id) # NoId
                      THEN companies[company_id].segment_id
                      ELSE segment_id
       IN \E lookup \in CompanyLookups(companies, segment, company_id) :
          \E result \in {process_contact_csv(file, company_id, segment_id, lookup)} :
          /\ contacts' = RequestTransaction(contacts, result.contacts, result.raised)
          /\ batches' = RequestTransaction(batches, result.batches, result.raised)
          /\ response' = IF result.raised
                         THEN Response("upload_contacts", NoId, arg,
                                       SERVER_ERROR, <<>>)
                         ELSE Response("upload_contacts", result.batch_id, arg,
                                       OK, result.errors)
    /\ UNCHANGED <<companies, requests, users, assignments>>

-----------------------------------------------------------------------------
(* Concurrent requests *)

\* Each request runs in its own session.  A handler first loads the row
\* (get_company / get_contact), then checks the status of the row it loaded
\* and assigns the new values; the flush writes the columns whose value
\* differs from the loaded one with UPDATE ... WHERE id = :id, and the
\* request commits.  No query uses with_for_update and no model has a
\* version column, so the UPDATE of a request that loaded the row before
\* another request committed is applied to the row as it is then.

Requests == 1..MaxRequests

IdleRequest ==
    [pc |-> "idle", op |-> "none", id |-> NoId, arg |-> <<>>,
     loaded |-> <<>>, error |-> OK]

\* the UPDATE of the unit of work: only the modified columns are written
FlushUpdate(stored, loaded, assigned) ==
    [f \in DOMAIN stored |-> IF assigned[f] # loaded[f] THEN assigned[f] ELSE stored[f]]

\* approve_company up to the return of get_company
approve_company_load(r, company_id, approval) ==
    /\ requests[r].pc = "idle"
    /\ CompanyApprovalValid(approval)
    /\ get_company(companies, company_id) # NoId
    /\ requests' = [requests EXCEPT ![r] =
            [pc |-> "loaded", op |-> "approve_company", id |-> company_id,
             arg |-> approval, loaded |-> companies[company_id], error |-> OK]]
    /\ UNCHANGED <<companies, contacts, batches, response,
                 users, assignments, token, current_user>>

\* approve_company from the status check to the commit
approve_company_flush(r) ==
    LET req == requests[r] IN
    /\ req.pc = "loaded"
    /\ req.op = "approve_company"
    /\ IF ApproveCompanyError(req.loaded.status) # OK
       THEN /\ requests' = [requests EXCEPT ![r].pc = "done",
                                            ![r].error = INVALID_TRANSITION]
            /\ companies' = companies
       ELSE /\ requests' = [requests EXCEPT ![r].pc = "done", ![r].error = OK]
            /\ companies' = [companies EXCEPT ![req.id] =
                    FlushUpdate(@, req.loaded,
                                ApproveCompanyWrite(req.loaded, req.arg, NoId))]
    /\ UNCHANGED <<contacts, batches, response,
                 users, assignments, token, current_user>>

ContactTransitions == {"approve_contact", "assign_to_sdr", "mark_meeting_scheduled"}

\* approve_contact, assign_to_sdr or mark_meeting_scheduled up to the return
\* of get_contact
contact_transition_load(r, op, contact_id, arg) ==
    /\ requests[r].pc = "idle"
    /\ get_contact(contacts, contact_id) # NoId
    /\ requests' = [requests EXCEPT ![r] =
            [pc |-> "loaded", op |-> op, id |-> contact_id,
             arg |-> arg, loaded |-> contacts[contact_id], error |-> OK]]
    /\ UNCHANGED <<companies, contacts, batches, response,
                 users, assignments, token, current_user>>

\* the error the transition raises on the row it loaded
TransitionError(op, loaded, arg) ==
    IF op = "approve_contact" THEN ApproveContactError(loaded.status, arg)
    ELSE IF op = "assign_to_sdr" THEN AssignError(loaded.status)
    ELSE MeetingError(loaded.status)

\* the values the transition assigns to the row it loaded
TransitionWrite(op, loaded, arg) ==
    IF op = "approve_contact" THEN [loaded EXCEPT !.status = APPROVED]
    ELSE IF op = "assign_to_sdr" THEN AssignWrite(loaded, arg)
    ELSE [loaded EXCEPT !.status = MEETING_SCHEDULED]

\* approve_contact, assign_to_sdr or mark_meeting_scheduled from the status
\* check to the commit
contact_transition_flush(r) ==
    LET req == requests[r]
        error == TransitionError(req.op, req.loaded, req.arg)
    IN  /\ req.pc = "loaded"
        /\ req.op \in ContactTransitions
        /\ requests' = [requests EXCEPT ![r].pc = "done", ![r].error = error]
        /\ contacts' = IF error = OK
                       THEN [contacts EXCEPT ![req.id] =
                               FlushUpdate(@, req.loaded,
                                           TransitionWrite(req.op, req.loaded, req.arg))]
                       ELSE contacts
        /\ UNCHANGED <<companies, batches, response,
                     users, assignments, token, current_user>>

\* the status code the companies router answers approve_company with
ApproveCompanyStatusCode(error) ==
    IF error = OK THEN 200
    ELSE IF error = NOT_FOUND THEN 404
    ELSE 400

-----------------------------------------------------------------------------
(* core/security.py: tokens *)

\* A token is modelled by the payload jwt.encode signed, by whether the
\* signature was made with SECRET_KEY and by whether its exp has passed
\* when it is presented.

ACCESS == "access"
REFRESH == "refresh"

\* create_access_token(data): data plus exp and type "access"
create_access_token(data) ==
    [sub |-> data.sub, type |-> ACCESS, signed |-> TRUE, expired |-> FALSE]

\* create_refresh_token(data): data plus exp and type "refresh"
create_refresh_token(data) ==
    [sub |-> data.sub, type |-> REFRESH, signed |-> TRUE, expired |-> FALSE]

\* the same token presented after its exp
Expired(tok) == [tok EXCEPT !.expired = TRUE]

\* a token with the same payload signed with another key
Forged(tok) == [tok EXCEPT !.signed = FALSE]

\* no Authorization header
NoToken == [sub |-> NoId, type |-> "none", signed |-> FALSE, expired |-> FALSE]

\* the exception of python-jose, in place of a payload
JWTError == [sub |-> NoId, type |-> "JWTError"]

\* decode_token(token): the payload, or JWTError when jwt.decode rejects the
\* signature or the exp claim
decode_token(tok) ==
    IF tok.signed /\ ~tok.expired
    THEN [sub |-> tok.sub, type |-> tok.type]
    ELSE JWTError

-----------------------------------------------------------------------------
(* core/deps.py: authentication and role gating *)

UNAUTHORIZED == "unauthorized"
FORBIDDEN == "forbidden"

\* the details of the 401 answers
CREDENTIALS_DETAIL == "Could not validate credentials"
ACCESS_REQUIRED_DETAIL == "Invalid token type. Access token required."
REFRESH_CREDENTIALS_DETAIL == "Could not validate refresh token"
REFRESH_REQUIRED_DETAIL == "Invalid token type. Refresh token required."

\* get_current_user that does not look at the type of the token
get_current_user_AnyType(us, tok) ==
    LET payload == decode_token(tok) IN
    IF payload = JWTError \/ payload.sub = NoId
    THEN [error |-> UNAUTHORIZED, detail |-> CREDENTIALS_DETAIL, id |-> NoId]
    ELSE IF get_user_by_id(us, payload.sub) = NoId
    THEN [error |-> UNAUTHORIZED, detail |-> CREDENTIALS_DETAIL, id |-> NoId]
    ELSE [error |-> OK, detail |-> "", id |-> payload.sub]

\* get_current_user(token, db): the user the bearer token names, or the 401
\* it raises
get_current_user(us, tok) ==
    LET payload == decode_token(tok) IN
    IF payload = JWTError \/ payload.sub = NoId
    THEN [error |-> UNAUTHORIZED, detail |-> CREDENTIALS_DETAIL, id |-> NoId]
    ELSE IF payload.type # ACCESS
    THEN [error |-> UNAUTHORIZED, detail |-> ACCESS_REQUIRED_DETAIL, id |-> NoId]
    ELSE IF get_user_by_id(us, payload.sub) = NoId
    THEN [error |-> UNAUTHORIZED, detail |-> CREDENTIALS_DETAIL, id |-> NoId]
    ELSE [error |-> OK, detail |-> "", id |-> payload.sub]

\* a dependency that lets a deactivated user pass
get_current_active_user_AnyStatus(us, user_id) == OK

\* get_current_active_user(current_user): the 403 it raises for a user that
\* is not active
get_current_active_user(us, user_id) ==
    IF us[user_id].status # ACTIVE THEN FORBIDDEN ELSE OK

\* a role_checker that lets every active user pass
require_roles_AnyRole(us, user_id, required_roles) ==
    get_current_active_user(us, user_id)

\* require_roles(*required_roles).role_checker: the 403 it raises unless
\* the active user has at least one of the required roles
require_roles(us, user_id, required_roles) ==
    IF get_current_active_user(us, user_id) # OK THEN FORBIDDEN
    ELSE IF ~(\E role \in required_roles : role \in us[user_id].roles)
    THEN FORBIDDEN
    ELSE OK

\* an answer of an endpoint that has written nothing: an HTTPException
\* raised by a dependency or by the handler, or the answer of a read
Answer(op, id, arg, error, detail) ==
    /\ response' = Response(op, id, arg, error, detail)
    /\ UNCHANGED <<companies, contacts, batches, requests, users, assignments>>

\* The dependencies of an endpoint, resolved before its handler runs:
\* get_current_user on the bearer token, then the role_checker; handler is
\* the step of the endpoint for the user they return.
Depends(tok, required_roles, op, id, arg, handler(_)) ==
    LET user == get_current_user(users, tok) IN
    /\ token' = tok
    /\ current_user' = user.id
    /\ IF user.error # OK
       THEN Answer(op, id, arg, user.error, user.detail)
       ELSE IF require_roles(users, user.id, required_roles) # OK
       THEN Answer(op, id, arg, FORBIDDEN, "")
       ELSE handler(user.id)

-----------------------------------------------------------------------------
(* assignment_service *)

\* Assignment(entity_type, entity_id, assigned_to, assigned_by)
Assignment(entity_type, entity_id, assigned_to, assigned_by) ==
    [entity_type |-> entity_type, entity_id |-> entity_id,
     assigned_to |-> assigned_to, assigned_by |-> assigned_by]

\* UniqueConstraint("entity_type", "entity_id", "assigned_to")
unique_assignment(rows) ==
    \A i, j \in 1..Len(rows) :
        (i # j /\ rows[i].entity_type = rows[j].entity_type
               /\ rows[i].entity_id = rows[j].entity_id)
            => rows[i].assigned_to # rows[j].assigned_to

\* the foreign keys of assigned_to and assigned_by
AssignmentUsersExist(rows, us) ==
    \A i \in 1..Len(rows) :
        /\ get_user_by_id(us, rows[i].assigned_to) # NoId
        /\ get_user_by_id(us, rows[i].assigned_by) # NoId

AssignmentFlushOk(rows, us) ==
    unique_assignment(rows) /\ AssignmentUsersExist(rows, us)

\* create_assignment(db, entity_type, entity_id, assigned_to, assigned_by)
create_assignment(entity_type, entity_id, assigned_to, assigned_by) ==
    LET added == Append(assignments,
                        Assignment(entity_type, entity_id, assigned_to, assigned_by))
        arg == [entity_type |-> entity_type, entity_id |-> entity_id,
                assigned_to |-> assigned_to]
    IN  /\ IF AssignmentFlushOk(added, users)
           THEN /\ assignments' = added
                /\ response' = Response("create_assignment", Len(added), arg, OK, 0)
           ELSE /\ assignments' = assignments
                /\ response' = Response("create_assignment", NoId, arg,
                                        INTEGRITY_ERROR, 0)
        /\ UNCHANGED <<companies, contacts, batches, requests, users>>

-----------------------------------------------------------------------------
(* routers: the endpoints behind their dependencies *)

\* POST /companies/
companies_create_company(tok, data) ==
    Depends(tok, {RESEARCHER, ADMIN}, "create_company", NoId, data,
            LAMBDA user_id : create_company(data))

\* POST /companies/{company_id}/approve: the handler calls
\* company_service.approve_company(db=db, company_id=company_id,
\* approval=approval) and leaves approved_by to its default
companies_approve_company(tok, company_id, approval) ==
    Depends(tok, {APPROVER, ADMIN}, "approve_company", company_id, approval,
            LAMBDA user_id : approve_company(company_id, approval, NoId))

\* POST /contacts
contacts_create_contact(tok, data) ==
    Depends(tok, {RESEARCHER, APPROVER, ADMIN}, "create_contact", NoId, data,
            LAMBDA user_id : create_contact(data))

\* POST /contacts/{contact_id}/approve: the handler calls
\* contact_service.approve_contact(db, contact_id, approval,
\* approved_by=user_id), a keyword approve_contact does not declare: the
\* call raises TypeError before the service runs and the handler turns it
\* into a 500
contacts_approve_contact(tok, contact_id, approval) ==
    Depends(tok, {APPROVER, ADMIN}, "approve_contact", contact_id, approval,
            LAMBDA user_id : Answer("approve_contact", contact_id, approval,
                                    SERVER_ERROR, "TypeError"))

\* POST /contacts/{contact_id}/assign
contacts_assign_contact_to_sdr(tok, contact_id, assigned_sdr_id) ==
    Depends(tok, {APPROVER, ADMIN}, "assign_to_sdr", contact_id, assigned_sdr_id,
            LAMBDA user_id : assign_to_sdr(contact_id, assigned_sdr_id))

\* POST /contacts/{contact_id}/meeting-scheduled
contacts_mark_meeting_scheduled(tok, contact_id) ==
    Depends(tok, {SDR, APPROVER, ADMIN}, "mark_meeting_scheduled", contact_id, <<>>,
            LAMBDA user_id : mark_meeting_scheduled(contact_id))

\* POST /assignments/
assignments_create_assignment(tok, data) ==
    Depends(tok, {ADMIN, SEGMENT_OWNER}, "create_assignment", NoId, data,
            LAMBDA user_id : create_assignment(data.entity_type, data.entity_id,
                                               data.assigned_to, user_id))

\* GET /auth/me: get_current_user_info behind get_current_active_user
get_current_user_info(tok) ==
    LET user == get_current_user(users, tok) IN
    /\ token' = tok
    /\ current_user' = user.id
    /\ IF user.error # OK
       THEN Answer("get_current_user_info", NoId, <<>>, user.error, user.detail)
       ELSE IF get_current_active_user(users, user.id) # OK
       THEN Answer("get_current_user_info", NoId, <<>>, FORBIDDEN, "")
       ELSE Answer("get_current_user_info", user.id, <<>>, OK, "")

\* POST /auth/refresh: refresh_token(token_data, db); the answer carries the
\* new access token, or the detail of the 401
refresh_token(token_data) ==
    LET payload == decode_token(token_data.refresh_token)
        refused(detail) ==
            Answer("refresh_token", NoId, token_data, UNAUTHORIZED, detail)
    IN  /\ token' = token_data.refresh_token
        /\ current_user' = NoId
        /\ IF payload = JWTError \/ payload.sub = NoId
           THEN refused(REFRESH_CREDENTIALS_DETAIL)
           ELSE IF payload.type # REFRESH
           THEN refused(REFRESH_REQUIRED_DETAIL)
           ELSE IF get_user_by_id(users, payload.sub) = NoId
           THEN refused(REFRESH_CREDENTIALS_DETAIL)
           ELSE IF users[payload.sub].status # ACTIVE
           THEN refused(REFRESH_CREDENTIALS_DETAIL)
           ELSE Answer("refresh_token", payload.sub, token_data, OK,
                       create_access_token([sub |-> payload.sub]))

\* POST /auth/login.  The form is modelled by the user its email names
\* (NoId when no user has that email) and by whether the password is the
\* one of that user.

\* authenticate_user(db, email, password): the user, or None
authenticate_user(us, username, password_verified) ==
    IF get_user_by_id(us, username) = NoId THEN NoId
    ELSE IF ~password_verified THEN NoId
    ELSE IF us[username].status # ACTIVE THEN NoId
    ELSE username

LOGIN_DETAIL == "Incorrect email or password"

\* login(form_data, db): the answer carries the two tokens, or the detail of
\* the 401
login(form_data) ==
    LET user == authenticate_user(users, form_data.username,
                                  form_data.password_verified)
    IN  /\ token' = NoToken
        /\ current_user' = NoId
        /\ IF user = NoId
           THEN Answer("login", NoId, form_data, UNAUTHORIZED, LOGIN_DETAIL)
           ELSE Answer("login", user, form_data, OK,
                       [access_token |-> create_access_token([sub |-> user]),
                        refresh_token |-> create_refresh_token([sub |-> user])])

\* routers/users.py: the three endpoints that change the status or the
\* roles of a user
UserAdminOps == {"deactivate_user", "activate_user", "update_user_roles"}

\* the checks of the handler on the user it loaded, after the dependencies:
\* 404 for no such user, 400 for a self-deactivation or for the removal of
\* one's own admin role
UserAdminError(us, op, caller, user_id, roles) ==
    IF get_user_by_id(us, user_id) = NoId THEN NOT_FOUND
    ELSE IF op = "deactivate_user" /\ user_id = caller THEN INVALID_INPUT
    ELSE IF op = "update_user_roles" /\ user_id = caller /\ ADMIN \notin roles
    THEN INVALID_INPUT
    ELSE OK

\* the handler answers without calling the service: the user has the
\* status already
UserAdminNothingToDo(us, op, user_id) ==
    \/ op = "deactivate_user" /\ us[user_id].status = DEACTIVATED
    \/ op = "activate_user" /\ us[user_id].status = ACTIVE

\* auth_service.deactivate_user, activate_user and update_user_roles: the
\* users table after their commit
UserAdminWrite(us, op, user_id, roles) ==
    IF op = "deactivate_user" THEN [us EXCEPT ![user_id].status = DEACTIVATED]
    ELSE IF op = "activate_user" THEN [us EXCEPT ![user_id].status = ACTIVE]
    ELSE [us EXCEPT ![user_id].roles = roles]

\* the handler of one of the three endpoints for the caller the
\* dependencies returned
UserAdminHandler(op, caller, user_id, roles) ==
    LET error == UserAdminError(users, op, caller, user_id, roles) IN
    IF error # OK
    THEN Answer(op, user_id, roles, error, "")
    ELSE IF UserAdminNothingToDo(users, op, user_id)
    THEN Answer(op, user_id, roles, OK, "")
    ELSE /\ users' = UserAdminWrite(users, op, user_id, roles)
         /\ response' = Response(op, user_id, roles, OK, "")
         /\ UNCHANGED <<companies, contacts, batches, requests, assignments>>

\* POST /users/{user_id}/deactivate
users_deactivate_user(tok, user_id) ==
    Depends(tok, {ADMIN}, "deactivate_user", user_id, {},
            LAMBDA caller : UserAdminHandler("deactivate_user", caller, user_id, {}))

\* POST /users/{user_id}/activate
users_activate_user(tok, user_id) ==
    Depends(tok, {ADMIN}, "activate_user", user_id, {},
            LAMBDA caller : UserAdminHandler("activate_user", caller, user_id, {}))

\* PUT /users/{user_id}/roles
users_update_user_roles(tok, user_id, roles) ==
    Depends(tok, {ADMIN}, "update_user_roles", user_id, roles,
            LAMBDA caller : UserAdminHandler("update_user_roles", caller,
                                             user_id, roles))

\* one of the three requests up to the call of the service: the
\* dependencies and the checks of the handler have read the users table
user_admin_load(r, tok, op, user_id, roles) ==
    LET user == get_current_user(users, tok)
        error == IF user.error # OK THEN user.error
                 ELSE IF require_roles(users, user.id, {ADMIN}) # OK THEN FORBIDDEN
                 ELSE UserAdminError(users, op, user.id, user_id, roles)
        answered == error # OK \/ UserAdminNothingToDo(users, op, user_id)
    IN  /\ requests[r].pc = "idle"
        /\ requests' = [requests EXCEPT ![r] =
                [pc |-> IF answered THEN "done" ELSE "loaded", op |-> op,
                 id |-> user_id, arg |-> roles, loaded |-> user.id,
                 error |-> error]]
        /\ UNCHANGED <<companies, contacts, batches, response,
                       users, assignments, token, current_user>>

\* the service call of the request: its UPDATE, or DELETE and INSERTs, and
\* its commit
user_admin_flush(r) ==
    LET req == requests[r] IN
    /\ req.pc = "loaded"
    /\ req.op \in UserAdminOps
    /\ users' = UserAdminWrite(users, req.op, req.id, req.arg)
    /\ requests' = [requests EXCEPT ![r].pc = "done"]
    /\ UNCHANGED <<companies, contacts, batches, response,
                   assignments, token, current_user>>

\* the status code of the answer: 401 and 403 from the dependencies, 422
\* from the validation of the body, then what each handler makes of the
\* outcome of its service call
StatusCode(op, error) ==
    IF error = UNAUTHORIZED THEN 401
    ELSE IF error = FORBIDDEN THEN 403
    ELSE IF error = VALIDATION_ERROR THEN 422
    ELSE IF op = "approve_company" THEN ApproveCompanyStatusCode(error)
    ELSE IF op \in {"create_company", "create_assignment"}
    THEN (IF error = OK THEN 201
          ELSE IF error = INTEGRITY_ERROR THEN 409
          ELSE 500)
    ELSE IF op \in {"upload_companies", "upload_contacts"}
    THEN (IF error = OK THEN 201
          ELSE IF error = INVALID_INPUT THEN 400
          ELSE 500)
    ELSE IF op \in {"get_current_user_info", "refresh_token", "login"} THEN 200
    ELSE IF op \in UserAdminOps
    THEN (IF error = OK THEN 200
          ELSE IF error = NOT_FOUND THEN 404
          ELSE IF error = INVALID_INPUT THEN 400
          ELSE 500)
    ELSE IF error = OK THEN (IF op = "create_contact" THEN 201 ELSE 200)
    ELSE IF error \in {NOT_FOUND, INVALID_TRANSITION, INVALID_INPUT} THEN 400
    ELSE 500

-----------------------------------------------------------------------------
(* Specification of the company pipeline: every handler that writes the    *)
(* companies table, one request at a time                                  *)

NoRequests == [r \in Requests |-> IdleRequest]

\* bodies of POST /companies
CompanyCreates ==
    [company_name : {<<"a">>, <<"A">>}, company_website : {<<"w">>}, segment_id : {1}]

\* bodies of PATCH /companies/{company_id}
CompanyUpdateBodies ==
    {<<>>,
     [company_name |-> <<"A">>],
     [company_name |-> <<"a">>, status |-> APPROVED, rejection_reason |-> <<"r">>],
     [status |-> PENDING, is_duplicate |-> TRUE]}

\* bodies of POST /companies/{company_id}/approve
CompanyApprovals ==
    [status : CompanyStatusEnum, rejection_reason : {NULL, EMPTY, <<"r">>}]

\* uploaded company files: no data row, a valid row, a row without a name,
\* and both
CompanyFiles ==
    LET valid == [company_name |-> <<"a">>, company_website |-> <<"w">>]
        blank == [company_name |-> <<" ">>, company_website |-> <<"w">>]
    IN  {<<>>, <<valid>>, <<blank>>, <<valid, blank>>}

Init ==
    /\ companies = <<>>
    /\ contacts = <<>>
    /\ batches = <<>>
    /\ requests = NoRequests
    /\ response = NoResponse
    /\ users = UserRows
    /\ assignments = <<>>
    /\ token = NoToken
    /\ current_user = NoId

CreateCompany ==
    /\ Len(companies) < MaxCompanies
    /\ \E data \in CompanyCreates : create_company(data)
    /\ UNCHANGED <<token, current_user>>

UpdateCompany ==
    \E company_id \in 1..(Len(companies) + 1), body \in CompanyUpdateBodies :
        /\ update_company(company_id, body)
        /\ UNCHANGED <<token, current_user>>

ApproveCompany ==
    \E company_id \in 1..(Len(companies) + 1), approval \in CompanyApprovals :
        /\ approve_company(company_id, approval, NoId)
        /\ UNCHANGED <<token, current_user>>

MarkCompanyDuplicate ==
    \E company_id \in 1..(Len(companies) + 1), is_duplicate \in BOOLEAN :
        /\ company_mark_duplicate(company_id, is_duplicate)
        /\ UNCHANGED <<token, current_user>>

UploadCompanies ==
    /\ Len(batches) < MaxBatches
    /\ \E file \in CompanyFiles :
        /\ Len(companies) + Len(file) <= MaxCompanies
        /\ upload_companies(CsvUpload(file), 1)
        /\ UNCHANGED <<token, current_user>>

Next ==
    \/ CreateCompany
    \/ UpdateCompany
    \/ ApproveCompany
    \/ MarkCompanyDuplicate
    \/ UploadCompanies

Spec == Init /\ [][Next]_vars

-----------------------------------------------------------------------------
(* Properties of the company pipeline *)

\* a row of the companies table keeps its id
CompanyIds == 1..Len(companies)

\* one step leaves the status and the rejection_reason of company i alone
CompanyStatusKept(i) ==
    /\ i \in 1..Len(companies')
    /\ companies'[i].status = companies[i].status
    /\ companies'[i].rejection_reason = companies[i].rejection_reason

-----------------------------------------------------------------------------
(* Specification of the contact pipeline: every handler of contact_service *)
(* that writes the contacts table, one request at a time, on the contacts  *)
(* of one company                                                          *)

\* validated bodies of POST /contacts; company 2 does not exist
ContactCreates ==
    [email : {<<"e", "@", "d">>, <<"E", "@", "d">>}, company_id : {1, 2}]

\* bodies of PATCH /contacts/{contact_id}
ContactUpdateBodies ==
    {<<>>,
     [email |-> <<"E", "@", "d">>],
     [email |-> <<"e", "@", "d">>, status |-> UPLOADED, assigned_sdr_id |-> NoId],
     [status |-> MEETING_SCHEDULED, is_duplicate |-> TRUE]}

\* bodies of POST /contacts/{contact_id}/approve
ContactApprovals == [status : ContactStatusEnum]

\* ids of the users that contacts are assigned to
SdrIds == {1, 2}

\* the ids a request may name: those of the rows and one that does not exist
ContactIdsNamed == 1..(Len(contacts) + 1)

\* contact_ids of a bulk assignment: one or two ids, possibly the same twice
BulkContactIds ==
    {<<i>> : i \in ContactIdsNamed}
        \cup {<<i, j>> : i \in 1..Len(contacts), j \in ContactIdsNamed}

InitContacts ==
    /\ companies = <<Company(<<"a">>, <<"w">>, 1, NoId)>>
    /\ contacts = <<>>
    /\ batches = <<>>
    /\ requests = NoRequests
    /\ response = NoResponse
    /\ users = UserRows
    /\ assignments = <<>>
    /\ token = NoToken
    /\ current_user = NoId

CreateContact ==
    /\ Len(contacts) < MaxContacts
    /\ \E data \in ContactCreates : create_contact(data)
    /\ UNCHANGED <<token, current_user>>

UpdateContact ==
    \E contact_id \in ContactIdsNamed, body \in ContactUpdateBodies :
        /\ update_contact(contact_id, body)
        /\ UNCHANGED <<token, current_user>>

ApproveContact ==
    \E contact_id \in ContactIdsNamed, approval \in ContactApprovals :
        /\ approve_contact(contact_id, approval)
        /\ UNCHANGED <<token, current_user>>

AssignToSdrAction ==
    \E contact_id \in ContactIdsNamed, sdr_id \in SdrIds :
        /\ assign_to_sdr(contact_id, sdr_id)
        /\ UNCHANGED <<token, current_user>>

BulkAssignToSdr ==
    \E contact_ids \in BulkContactIds, sdr_id \in SdrIds :
        /\ bulk_assign_to_sdr(contact_ids, sdr_id)
        /\ UNCHANGED <<token, current_user>>

MarkMeetingScheduled ==
    \E contact_id \in ContactIdsNamed :
        /\ mark_meeting_scheduled(contact_id)
        /\ UNCHANGED <<token, current_user>>

MarkContactDuplicate ==
    \E contact_id \in ContactIdsNamed, is_duplicate \in BOOLEAN :
        /\ contact_mark_duplicate(contact_id, is_duplicate)
        /\ UNCHANGED <<token, current_user>>

NextContacts ==
    \/ CreateContact
    \/ UpdateContact
    \/ ApproveContact
    \/ AssignToSdrAction
    \/ BulkAssignToSdr
    \/ MarkMeetingScheduled
    \/ MarkContactDuplicate

SpecContacts == InitContacts /\ [][NextContacts]_vars

-----------------------------------------------------------------------------
(* Properties of the contact pipeline *)

\* the position of a status in the pipeline
Stage(contact_status) ==
    CASE contact_status = UPLOADED -> 1
      [] contact_status = APPROVED -> 2
      [] contact_status = ASSIGNED_TO_SDR -> 3
      [] contact_status = MEETING_SCHEDULED -> 4

\* the status a transition requires and the handlers that perform it
RequiredStatus(op) ==
    CASE op = "approve_contact" -> UPLOADED
      [] op = "assign_to_sdr" -> APPROVED
      [] op = "mark_meeting_scheduled" -> ASSIGNED_TO_SDR

\* one step leaves the status and the SDR of contact i alone
ContactStatusKept(i) ==
    /\ contacts'[i].status = contacts[i].status
    /\ contacts'[i].assigned_sdr_id = contacts[i].assigned_sdr_id

\* C28: a bulk assignment succeeds exactly when every listed contact exists
\* and is approved and no contact is listed twice, and then assigns every
\* listed contact to the SDR and changes no other contact; when it fails it
\* is answered 400 and no contact is changed, the contacts listed before the
\* failing one included.
C28_BulkAssignAllOrNothing ==
    [][response'.op = "bulk_assign_to_sdr"
          => LET contact_ids == response'.arg.contact_ids
                 sdr_id == response'.arg.sdr_id
                 listed == {contact_ids[k] : k \in 1..Len(contact_ids)}
                 assignable ==
                     /\ \A i \in listed :
                           /\ i \in 1..Len(contacts)
                           /\ contacts[i].status = APPROVED
                     /\ Cardinality(listed) = Len(contact_ids)
             IN  /\ (response'.error = OK) <=> assignable
                 /\ IF response'.error = OK
                    THEN /\ Len(contacts') = Len(contacts)
                         /\ \A i \in 1..Len(contacts) :
                               contacts'[i] = IF i \in listed
                                              THEN AssignWrite(contacts[i], sdr_id)
                                              ELSE contacts[i]
                    ELSE /\ contacts' = contacts
                         /\ StatusCode(response'.op, response'.error) = 400
      ]_vars

\* a bulk assignment that lists an approved contact twice was refused at the
\* second occurrence, and the contact is approved and unassigned as before
C28_Witness ==
    /\ response.op = "bulk_assign_to_sdr"
    /\ Len(response.arg.contact_ids) = 2
    /\ response.arg.contact_ids[1] = response.arg.contact_ids[2]
    /\ response.error = INVALID_TRANSITION
    /\ contacts[response.arg.contact_ids[1]].status = APPROVED
    /\ contacts[response.arg.contact_ids[1]].assigned_sdr_id = NoId

\* a bulk assignment of two contacts reached a contact that was not approved
\* after an approved one, and the approved one is unassigned as before
BulkFailsAfterAnApprovedContact ==
    /\ response.op = "bulk_assign_to_sdr"
    /\ Len(response.arg.contact_ids) = 2
    /\ response.arg.contact_ids[1] # response.arg.contact_ids[2]
    /\ response.error # OK
    /\ contacts[response.arg.contact_ids[1]].status = APPROVED
    /\ contacts[response.arg.contact_ids[1]].assigned_sdr_id = NoId

\* C4: a contact whose status changes advances by exactly one stage, through
\* the handler of that stage (approve from uploaded, assign from approved,
\* meeting-scheduled from assigned_to_sdr); a transition called on a contact
\* that is not in its required status fails, with the invalid-transition
\* error when the request is otherwise well formed, and leaves the status
\* and the assigned_sdr_id of the contact as they were; called on a contact
\* in the required status it succeeds.
C4_OneStageFromPredecessor ==
    [][/\ Len(contacts') >= Len(contacts)
       /\ \A i \in 1..Len(contacts) :
            contacts'[i].status # contacts[i].status
               => /\ Stage(contacts'[i].status) = Stage(contacts[i].status) + 1
                  /\ \/ response'.op \in ContactTransitions
                        /\ response'.error = OK
                        /\ response'.id = i
                        /\ contacts[i].status = RequiredStatus(response'.op)
                     \/ response'.op = "bulk_assign_to_sdr"
                        /\ contacts[i].status = APPROVED
       /\ (response'.op \in ContactTransitions /\ response'.id \in 1..Len(contacts))
            => IF contacts[response'.id].status # RequiredStatus(response'.op)
               THEN /\ response'.error \in {INVALID_TRANSITION, INVALID_INPUT}
                    /\ response'.error = INVALID_INPUT
                          => (response'.op = "approve_contact"
                              /\ response'.arg.status # APPROVED)
                    /\ ContactStatusKept(response'.id)
               ELSE response'.error = OK
                       => Stage(contacts'[response'.id].status)
                             = Stage(contacts[response'.id].status) + 1
      ]_vars

\* C4 witness: approve has been refused as an invalid transition on a
\* contact that is assigned_to_sdr
C4_Witness ==
    /\ response.op = "approve_contact"
    /\ response.arg = [status |-> APPROVED]
    /\ response.error = INVALID_TRANSITION
    /\ response.id \in 1..Len(contacts)
    /\ contacts[response.id].status = ASSIGNED_TO_SDR

-----------------------------------------------------------------------------
(* Specification of concurrent approvals: requests that approve or reject  *)
(* the one pending company, each in its own session, in any interleaving   *)
(* of their SELECT and their UPDATE                                        *)

\* requests are numbered in the order of their SELECT
NextToArrive(r) == IF r = 1 THEN TRUE ELSE requests[r - 1].pc # "idle"

InitCompanyRace ==
    /\ companies = <<Company(<<"a">>, <<"w">>, 1, NoId)>>
    /\ contacts = <<>>
    /\ batches = <<>>
    /\ requests = NoRequests
    /\ response = NoResponse
    /\ users = UserRows
    /\ assignments = <<>>
    /\ token = NoToken
    /\ current_user = NoId

ApproveCompanyLoad ==
    \E r \in Requests, approval \in CompanyApprovals :
        /\ NextToArrive(r)
        /\ approve_company_load(r, 1, approval)

ApproveCompanyFlush == \E r \in Requests : approve_company_flush(r)

NextCompanyRace == ApproveCompanyLoad \/ ApproveCompanyFlush

SpecCompanyRace == InitCompanyRace /\ [][NextCompanyRace]_vars

\* the requests that have answered
Answered(op) == {r \in Requests : requests[r].pc = "done" /\ requests[r].op = op}

-----------------------------------------------------------------------------
(* Specification of concurrent contact transitions: approve_contact,       *)
(* assign_to_sdr and mark_meeting_scheduled requests on one contact, each  *)
(* in its own session, in any interleaving of their SELECT and UPDATE      *)

InitContactRace ==
    /\ companies = <<Company(<<"a">>, <<"w">>, 1, NoId)>>
    /\ contacts \in {<<Contact(<<"e", "@", "d">>, 1, 1, NoId)>>,
                     <<[Contact(<<"e", "@", "d">>, 1, 1, NoId)
                            EXCEPT !.status = APPROVED]>>}
    /\ batches = <<>>
    /\ requests = NoRequests
    /\ response = NoResponse
    /\ users = UserRows
    /\ assignments = <<>>
    /\ token = NoToken
    /\ current_user = NoId

\* the argument of each transition request
TransitionArgs(op) ==
    IF op = "approve_contact" THEN {[status |-> APPROVED]}
    ELSE IF op = "assign_to_sdr" THEN SdrIds
    ELSE {<<>>}

ContactTransitionLoad ==
    \E r \in Requests, op \in ContactTransitions :
        \E arg \in TransitionArgs(op) :
            /\ NextToArrive(r)
            /\ contact_transition_load(r, op, 1, arg)

ContactTransitionFlush == \E r \in Requests : contact_transition_flush(r)

NextContactRace == ContactTransitionLoad \/ ContactTransitionFlush

SpecContactRace == InitContactRace /\ [][NextContactRace]_vars

\* C3: under any interleaving of the transition requests no contact's
\* stored status moves to an earlier stage of
\* [uploaded, approved, assigned_to_sdr, meeting_scheduled].
C3_StatusNeverRegresses ==
    [][\A i \in 1..Len(contacts) :
          Stage(contacts'[i].status) >= Stage(contacts[i].status)]_vars

\* C24: in every state a contact has an assigned_sdr_id if and only if its
\* status is assigned_to_sdr or meeting_scheduled, and no step clears or
\* changes the SDR of a contact that has one.
C24_SdrIffAssignedOrLater ==
    /\ [](\A i \in 1..Len(contacts) :
            (contacts[i].assigned_sdr_id # NoId)
                <=> (contacts[i].status \in {ASSIGNED_TO_SDR, MEETING_SCHEDULED}))
    /\ [][\A i \in 1..Len(contacts) :
            contacts[i].assigned_sdr_id # NoId
                => contacts'[i].assigned_sdr_id = contacts[i].assigned_sdr_id]_vars

\* C27: of two answered assign requests for the same contact with different
\* SDR ids at most one succeeded, the other was refused as an invalid
\* transition and the stored assigned_sdr_id is the one of the request that
\* succeeded; and a request that loaded a status of an earlier stage than
\* the stored one writes nothing over it.
C27_TransitionsAreAtomic ==
    /\ [](\A r1, r2 \in Answered("assign_to_sdr") :
            (/\ requests[r1].id = requests[r2].id
             /\ requests[r1].arg # requests[r2].arg
             /\ requests[r1].error = OK)
                => /\ requests[r2].error = INVALID_TRANSITION
                   /\ contacts[requests[r1].id].assigned_sdr_id = requests[r1].arg)
    /\ [][\A r \in Requests :
            (/\ requests[r].pc = "loaded"
             /\ requests'[r].pc = "done"
             /\ Stage(requests[r].loaded.status)
                    < Stage(contacts[requests[r].id].status))
                => contacts' = contacts]_vars

-----------------------------------------------------------------------------
(* Specification of the duplicate detector: detect_company_duplicates and  *)
(* detect_contact_duplicates applied to the tables the API can store, with *)
(* any is_duplicate flags (mark_duplicate sets them freely)                *)

\* the sequences of at most max rows
Tables(rows, max) == UNION {[1..n -> rows] : n \in 0..max}

\* names and websites as POST /companies stores them: CompanyCreate trims
\* nothing and accepts any character
DedupNames == {<<"a">>, <<"A", " ">>, <<"a", "|">>}
DedupWebsites == {NULL, <<"|">>}
SegmentIds == {1, 2}

DedupCompanyRows ==
    {[Company(name, website, segment_id, NoId) EXCEPT !.is_duplicate = flag] :
        name \in DedupNames, website \in DedupWebsites,
        segment_id \in SegmentIds, flag \in BOOLEAN}

\* emails as EmailStr stores them: only the domain is lowercased
DedupEmails == {<<"e", "@", "d">>, <<"E", "@", "d">>}

DedupContactRows ==
    {[Contact(email, company_id, 1, NoId) EXCEPT !.is_duplicate = flag] :
        email \in DedupEmails, company_id \in {1, 2}, flag \in BOOLEAN}

InitDedup ==
    /\ \/ /\ companies \in {cs \in Tables(DedupCompanyRows, MaxCompanies) :
                                CompanyFlushOk(cs)}
          /\ contacts = <<>>
       \/ /\ companies = <<Company(<<"a">>, NULL, 1, NoId),
                           Company(<<"A">>, NULL, 1, NoId)>>
          /\ contacts \in {ct \in Tables(DedupContactRows, MaxContacts) :
                                ContactFlushOk(ct, companies)}
    /\ batches = <<>>
    /\ requests = NoRequests
    /\ response = NoResponse
    /\ users = UserRows
    /\ assignments = <<>>
    /\ token = NoToken
    /\ current_user = NoId

DetectCompanyDuplicates ==
    \E segment_id \in SegmentIds :
        LET result == detect_company_duplicates(companies, segment_id) IN
        /\ companies' = result.companies
        /\ response' = Response("detect_company_duplicates", segment_id, <<>>, OK,
                                result.duplicates_marked)
        /\ UNCHANGED <<contacts, batches, requests, users, assignments,
                       token, current_user>>

DetectContactDuplicates ==
    \E company_id \in 1..Len(companies) :
        LET result == detect_contact_duplicates(contacts, company_id) IN
        /\ contacts' = result.contacts
        /\ response' = Response("detect_contact_duplicates", company_id, <<>>, OK,
                                result.duplicates_marked)
        /\ UNCHANGED <<companies, batches, requests, users, assignments,
                       token, current_user>>

NextDedup == DetectCompanyDuplicates \/ DetectContactDuplicates

SpecDedup == InitDedup /\ [][NextDedup]_vars

-----------------------------------------------------------------------------
(* Properties of the duplicate detector *)

\* the normalized (name, website) pair of a company and the normalized
\* email of a contact
NormalizedPair(company) == <<name_key(company), website_key(company)>>

\* company i is the earliest of its segment bearing its normalized pair
EarliestCompany(i) ==
    \A j \in 1..(i - 1) :
        companies[j].segment_id = companies[i].segment_id
            => NormalizedPair(companies[j]) # NormalizedPair(companies[i])

\* contact i is the earliest of its company bearing its normalized email
EarliestContact(i) ==
    \A j \in 1..(i - 1) :
        contacts[j].company_id = contacts[i].company_id
            => email_key(contacts[j]) # email_key(contacts[i])

\* C6: immediately after detect_company_duplicates(segment) returns, of the
\* companies of the segment bearing one normalized (name, website) pair the
\* earliest is the only one with is_duplicate == false, and immediately
\* after detect_contact_duplicates(company) the same holds for the contacts
\* of the company bearing one normalized email.
C6_EarliestIsTheOnlyUnflagged ==
    /\ response.op = "detect_company_duplicates"
          => \A i \in 1..Len(companies) :
                companies[i].segment_id = response.id
                    => (companies[i].is_duplicate <=> ~EarliestCompany(i))
    /\ response.op = "detect_contact_duplicates"
          => \A i \in 1..Len(contacts) :
                contacts[i].company_id = response.id
                    => (contacts[i].is_duplicate <=> ~EarliestContact(i))

\* C7: a second run of the detector on the scope it has just run on, with
\* no change in between, leaves every is_duplicate flag as the first run
\* left it and returns 0.
C7_SecondRunChangesNothing ==
    /\ response.op = "detect_company_duplicates"
          => detect_company_duplicates(companies, response.id)
                = [companies |-> companies, duplicates_marked |-> 0]
    /\ response.op = "detect_contact_duplicates"
          => detect_contact_duplicates(contacts, response.id)
                = [contacts |-> contacts, duplicates_marked |-> 0]

\* C7 witness: the first run has marked a later occurrence of a key
C7_Witness ==
    /\ response.op = "detect_company_duplicates"
    /\ response.ret = 1
    /\ \E i \in 1..Len(companies) :
          companies[i].segment_id = response.id /\ companies[i].is_duplicate

\* the entities whose is_duplicate flag the step changes from false to true
CompaniesNewlyFlagged ==
    {i \in 1..Len(companies) :
        ~companies[i].is_duplicate /\ companies'[i].is_duplicate}

ContactsNewlyFlagged ==
    {i \in 1..Len(contacts) :
        ~contacts[i].is_duplicate /\ contacts'[i].is_duplicate}

\* C21: the value a detector returns is the number of entities whose
\* is_duplicate flag this run changed from false to true; an entity that
\* was flagged already and stays a duplicate is not counted, and an entity
\* whose flag the run clears is not counted.
C21_CountIsTheNewlyFlagged ==
    [][/\ response'.op = "detect_company_duplicates"
            => response'.ret = Cardinality(CompaniesNewlyFlagged)
       /\ response'.op = "detect_contact_duplicates"
            => response'.ret = Cardinality(ContactsNewlyFlagged)]_vars

\* a run over a segment that returned 0 although a company of the segment
\* is flagged: the flag was there before the run
C21_Witness ==
    /\ response.op = "detect_company_duplicates"
    /\ response.ret = 0
    /\ \E i, j \in 1..Len(companies) :
          /\ i < j
          /\ companies[i].segment_id = response.id
          /\ companies[j].segment_id = response.id
          /\ ~companies[i].is_duplicate
          /\ companies[j].is_duplicate

\* C22: two companies of a segment have the same dedup key if and only if
\* their normalized names are equal and their normalized websites are
\* equal, a null website counting as the empty one, whatever characters the
\* names and websites contain.
C22_KeyIdentifiesThePair ==
    \A i, j \in 1..Len(companies) :
        companies[i].segment_id = companies[j].segment_id
            => (CompanyKey(companies[i]) = CompanyKey(companies[j])
                    <=> NormalizedPair(companies[i]) = NormalizedPair(companies[j]))

-----------------------------------------------------------------------------
(* Specification of the CSV ingestion: POST /uploads/companies and         *)
(* POST /uploads/contacts on a segment that holds one company, with or     *)
(* without a contact                                                       *)

Acme == <<"A", "c", "m", "e">>
AcmeCom == <<"a", "c", "m", "e", ".", "c", "o", "m">>

\* rows of a company file: "Acme" with its website, a distinct company
\* without website, a row whose company_name cell is blank
CompanyCsvRows ==
    {[company_name |-> Acme, company_website |-> AcmeCom],
     [company_name |-> <<"B">>, company_website |-> NULL],
     [company_name |-> <<" ">>, company_website |-> AcmeCom]}

\* rows of a contact file: a valid row of company "a", a row whose email is
\* not an address, a row of a company the segment does not hold, and a short
\* row, which csv.DictReader completes with None
ContactCsvRows ==
    {[first_name |-> <<"f">>, email |-> <<"e", "@", "D">>, company_name |-> <<"A", " ">>],
     [first_name |-> <<"f">>, email |-> <<"e">>, company_name |-> <<"a">>],
     [first_name |-> <<"f">>, email |-> <<"b", "@", "d">>, company_name |-> <<"x">>],
     [first_name |-> <<"f">>, email |-> <<"b", "@", "d">>, company_name |-> NULL]}

\* the rows the batches have counted so far
RECURSIVE RowsUploaded(_)
RowsUploaded(bs) ==
    IF bs = <<>> THEN 0 ELSE Head(bs).total_rows + RowsUploaded(Tail(bs))

UploadAllowed(file) ==
    /\ Len(batches) < MaxBatches
    /\ RowsUploaded(batches) + Len(file) <= MaxRows

InitUpload ==
    /\ companies = <<Company(<<"a">>, <<"w">>, 1, NoId)>>
    /\ contacts \in {<<>>, <<Contact(<<"E", "@", "d">>, 1, 1, NoId)>>}
    /\ batches = <<>>
    /\ requests = NoRequests
    /\ response = NoResponse
    /\ users = UserRows
    /\ assignments = <<>>
    /\ token = NoToken
    /\ current_user = NoId

UploadCompanyFile ==
    \E file \in Tables(CompanyCsvRows, MaxRows) :
        /\ UploadAllowed(file)
        /\ upload_companies(CsvUpload(file), 1)
        /\ UNCHANGED <<token, current_user>>

UploadContactFile ==
    \E file \in Tables(ContactCsvRows, MaxContacts) :
        /\ UploadAllowed(file)
        /\ \/ upload_contacts(CsvUpload(file), 1, NoId)
           \/ upload_contacts(CsvUpload(file), NoId, 1)
           \/ upload_contacts(CsvUpload(file), 1, 1)
        /\ UNCHANGED <<token, current_user>>

NextUpload == UploadCompanyFile \/ UploadContactFile

SpecUpload == InitUpload /\ [][NextUpload]_vars

-----------------------------------------------------------------------------
(* Properties of the CSV ingestion *)

UploadOps == {"upload_companies", "upload_contacts"}

\* the rows a batch has created
CreatedBy(batch_id) ==
    Cardinality({i \in 1..Len(companies) : companies[i].batch_id = batch_id})
        + Cardinality({i \in 1..Len(contacts) : contacts[i].batch_id = batch_id})

\* C8: every stored batch has total_rows = valid_rows + invalid_rows, is
\* failed if and only if invalid_rows > 0 and completed otherwise, and is
\* never left in processing, for company and contact files, rows skipped
\* for a missing or unmatched company name included.
C8_BatchCountersAndStatus ==
    \A b \in 1..Len(batches) :
        /\ batches[b].total_rows = batches[b].valid_rows + batches[b].invalid_rows
        /\ (batches[b].status = FAILED) <=> (batches[b].invalid_rows > 0)
        /\ (batches[b].status = COMPLETED) <=> (batches[b].invalid_rows = 0)
        /\ batches[b].status # PROCESSING

\* C8 witness: a contact batch that has created a contact and has skipped a
\* row whose company name matched no company
C8_Witness ==
    /\ response.op = "upload_contacts"
    /\ response.error = OK
    /\ batches[response.id].valid_rows > 0
    /\ batches[response.id].status = FAILED
    /\ \E e \in 1..Len(response.ret) : response.ret[e].field = "company_name"

\* C9: a row that cannot be turned into an entity never aborts the batch:
\* whatever the file, the batch response is returned, the batch has counted
\* every row of the file, an error is recorded if and only if a row is
\* invalid, and every valid row has been created.
C9_BadRowNeverAbortsTheBatch ==
    response.op \in UploadOps
        => /\ response.error = OK
           /\ response.id \in 1..Len(batches)
           /\ batches[response.id].total_rows = Len(response.arg.file)
           /\ (batches[response.id].invalid_rows > 0) <=> (response.ret # <<>>)
           /\ CreatedBy(response.id) = batches[response.id].valid_rows

\* the file of the scenario: rows 1 and 3 are "Acme", "acme.com"
AcmeFile ==
    <<[company_name |-> Acme, company_website |-> AcmeCom],
      [company_name |-> <<"B">>, company_website |-> NULL],
      [company_name |-> Acme, company_website |-> AcmeCom]>>

\* C10: the upload of the 3-row file whose rows 1 and 3 are the same "Acme"
\* produces a completed batch with total_rows = 3, valid_rows = 3 and
\* invalid_rows = 0, creates three companies, and leaves the company of row
\* 1 unflagged and the company of row 3 flagged as duplicate.
C10_AcmeTwiceInOneFile ==
    (response.op = "upload_companies" /\ response.arg.file = AcmeFile)
        => /\ response.error = OK
           /\ response.id \in 1..Len(batches)
           /\ batches[response.id] = [upload_type |-> "company", total_rows |-> 3,
                                      valid_rows |-> 3, invalid_rows |-> 0,
                                      status |-> COMPLETED]
           /\ \E i, j, k \in 1..Len(companies) :
                 /\ i < j /\ j < k
                 /\ \A n \in {i, j, k} : companies[n].batch_id = response.id
                 /\ CreatedBy(response.id) = 3
                 /\ ~companies[i].is_duplicate
                 /\ companies[k].is_duplicate

\* the normalized company_name of a row of a contact file
RowNameKey(row) == lower(strip(row.company_name))

\* the rows of a contact file that name no company of the segment: the cell
\* is absent or blank, or no company of the segment has that normalized name
UnresolvedRows(file, segment_id) ==
    {n \in 1..Len(file) :
        \/ file[n].company_name = NULL
        \/ strip(file[n].company_name) = EMPTY
        \/ \A c \in 1..Len(companies) :
              companies[c].segment_id = segment_id
                  => LookupKey(companies[c]) # RowNameKey(file[n])}

\* C11: in a contact upload without company id the batch response is
\* returned, the companies are left as they were, every contact the upload
\* creates is attached to a company of the target segment whose normalized
\* name is the normalized company_name of a row of the file, and every row
\* without company_name or without match is counted invalid with a row error
\* on company_name.
C11_RowsResolvedByNameInSegment ==
    [][(response'.op = "upload_contacts" /\ response'.arg.company_id = NoId)
        => LET file == response'.arg.file
               segment_id == response'.arg.segment_id
           IN  /\ response'.error = OK
               /\ companies' = companies
               /\ \A i \in (Len(contacts) + 1)..Len(contacts') :
                     /\ contacts'[i].company_id \in 1..Len(companies)
                     /\ companies[contacts'[i].company_id].segment_id = segment_id
                     /\ \E n \in 1..Len(file) :
                           /\ file[n].company_name # NULL
                           /\ RowNameKey(file[n])
                                = LookupKey(companies[contacts'[i].company_id])
               /\ \A n \in UnresolvedRows(file, segment_id) :
                     \E e \in 1..Len(response'.ret) :
                         /\ response'.ret[e].row_number = n + 1
                         /\ response'.ret[e].field = "company_name"
               /\ batches'[response'.id].invalid_rows
                     >= Cardinality(UnresolvedRows(file, segment_id))]_vars

\* the field of the n-th data row of the file of an upload is one the
\* upload rejects the row for
RowFieldFails(resp, n, field) ==
    LET row == resp.arg.file[n] IN
    IF field = "company_name"
    THEN IF resp.op = "upload_companies"
         THEN FilteredCell(row.company_name) = NULL
         ELSE n \in UnresolvedRows(resp.arg.file, resp.arg.segment_id)
    ELSE IF field = "first_name"
    THEN FilteredCell(row.first_name) = NULL
    ELSE \/ FilteredCell(row.email) = NULL
         \/ AtPosition(FilteredCell(row.email)) = 0

\* C23: the errors returned for a batch are in the order of the rows of the
\* file, by non-decreasing row number, and the row number of an error is
\* the position of its row among the data rows, the first row after the
\* header being row 1.
C23_ErrorsInRowOrderFromOne ==
    (response.op \in UploadOps /\ response.error = OK)
        => /\ \A e, f \in 1..Len(response.ret) :
                 e < f => response.ret[e].row_number <= response.ret[f].row_number
           /\ \A e \in 1..Len(response.ret) :
                 /\ response.ret[e].row_number \in 1..Len(response.arg.file)
                 /\ RowFieldFails(response, response.ret[e].row_number,
                                  response.ret[e].field)

\* the companies that received a contact from a batch
CompaniesOfBatch(batch_id) ==
    {contacts[i].company_id : i \in {j \in 1..Len(contacts) :
                                        contacts[j].batch_id = batch_id}}

\* C12: after an upload that returned its batch with at least one valid
\* row, the detector has run over the whole affected scope, so that one
\* more run would change no flag: over the segment after a company file,
\* over every company that received a contact after a contact file, a file
\* whose last row was invalid included.
C12_DetectorRanOverAffectedScope ==
    (response.op \in UploadOps /\ response.error = OK
        /\ batches[response.id].valid_rows > 0)
        => IF response.op = "upload_companies"
           THEN detect_company_duplicates(companies,
                    response.arg.segment_id).companies = companies
           ELSE \A company_id \in CompaniesOfBatch(response.id) :
                    detect_contact_duplicates(contacts, company_id).contacts
                        = contacts

\* C17: every contact an upload creates (with company_id only, with
\* segment_id only, or with both) is attached to a stored company and has
\* the segment_id of that company.
C17_ContactSegmentIsItsCompanys ==
    \A i \in 1..Len(contacts) :
        /\ get_company(companies, contacts[i].company_id) # NoId
        /\ contacts[i].segment_id = companies[contacts[i].company_id].segment_id

\* ------------------------------------------------------------------------
\* Specification of the uploads with any file: files of every name and size
\* are posted to the two upload endpoints.
\* ------------------------------------------------------------------------

UploadFilenames == {<<"f">> \o DotCsv, <<"c", "s", "v">>, EMPTY}

UploadSizes == {0, 1, MaxUploadBytes, MaxUploadBytes + 1}

\* the files posted, of one data row or none: an empty file has no rows
UploadFiles(rows) ==
    {UploadFile(filename, size, <<>>) :
        filename \in UploadFilenames, size \in UploadSizes}
    \cup {UploadFile(filename, size, <<row>>) :
            filename \in UploadFilenames, size \in UploadSizes \ {0},
            row \in rows}

\* the rows of the files posted: a valid row and a row the service reports
PostedCompanyRows == {r \in CompanyCsvRows : r.company_website = AcmeCom}

PostedContactRows == {r \in ContactCsvRows : r.company_name = <<"a">>
                                              \/ r.company_name = <<"A", " ">>}

PostUploadCompanies ==
    \E upload \in UploadFiles(PostedCompanyRows) :
        /\ UploadAllowed(upload.rows) \/ UploadFileError(upload) # OK
        /\ upload_companies(upload, 1)
        /\ UNCHANGED <<token, current_user>>

PostUploadContacts ==
    \E upload \in UploadFiles(PostedContactRows) :
    \E company_id \in {NoId, 1} :
    \E segment_id \in {NoId, 1, 2} :
        /\ \/ UploadAllowed(upload.rows)
           \/ UploadFileError(upload) # OK
           \/ (company_id = NoId /\ segment_id = NoId)
        /\ upload_contacts(upload, company_id, segment_id)
        /\ UNCHANGED <<token, current_user>>

NextUploadFiles == PostUploadCompanies \/ PostUploadContacts

SpecUploadFiles == InitUpload /\ [][NextUploadFiles]_vars

\* what the claim calls a file that is refused: larger than 10 MB, empty, or
\* not named *.csv
RefusedFile(arg) ==
    \/ arg.size > MaxUploadBytes
    \/ arg.size = 0
    \/ ~endswith(arg.filename, DotCsv)

\* C18: an upload whose file is larger than 10 MB, is empty or is not named
\* *.csv is answered 400, and the request creates no upload batch, no company
\* and no contact.
C18_RefusedFileCreatesNothing ==
    [][(/\ response'.op \in {"upload_companies", "upload_contacts"}
        /\ RefusedFile(response'.arg))
       => /\ StatusCode(response'.op, response'.error) = 400
          /\ UNCHANGED <<companies, contacts, batches>>]_vars

\* a file of valid rows named *.csv, one byte over the limit, was refused
\* with nothing stored
C18_Witness ==
    /\ response.op = "upload_companies"
    /\ response.arg.size = MaxUploadBytes + 1
    /\ endswith(response.arg.filename, DotCsv)
    /\ response.arg.file # <<>>
    /\ response.error = INVALID_INPUT
    /\ batches = <<>>

-----------------------------------------------------------------------------
(* Specification of the API: the endpoints of the companies, contacts,     *)
(* assignments and auth routers behind their dependencies, one request at  *)
(* a time, on a segment that holds one pending company                     *)

UserIds == 1..Len(UserRows)

\* the id of a user that was deleted after its tokens were issued
DeletedUserId == Len(UserRows) + 1

\* bearer tokens: the access token of every user, and for the approver a
\* refresh token, an access token past its exp and one signed with another
\* key; the access token of a deleted user; no token
ApiTokens ==
    {create_access_token([sub |-> u]) : u \in UserIds \cup {DeletedUserId}}
        \cup {create_refresh_token([sub |-> 4]),
              Expired(create_access_token([sub |-> 4])),
              Forged(create_access_token([sub |-> 4])),
              NoToken}

\* bodies of POST /auth/refresh: the refresh token of an active, of a
\* deactivated and of a deleted user, an expired and a forged refresh token,
\* and an access token
RefreshBodies ==
    {[refresh_token |-> tok] : tok \in
        {create_refresh_token([sub |-> u]) : u \in {4, 7, DeletedUserId}}
            \cup {Expired(create_refresh_token([sub |-> 4])),
                  Forged(create_refresh_token([sub |-> 4])),
                  create_access_token([sub |-> 4])}}

ApiCompanyCreates ==
    {[company_name |-> <<"B">>, company_website |-> NULL, segment_id |-> 1]}

\* an approval, a rejection with its reason, a rejection without reason
ApiCompanyApprovals ==
    {[status |-> APPROVED, rejection_reason |-> NULL],
     [status |-> REJECTED, rejection_reason |-> <<"r">>],
     [status |-> REJECTED, rejection_reason |-> NULL]}

\* bodies of POST /contacts: for a stored company and for an id that names
\* none
ApiContactCreates ==
    [email : {<<"e", "@", "d">>}, company_id : {1, Len(companies) + 1}]

\* the SDR of the users table
ApiSdrIds == {5}

\* bodies of POST /assignments/: the stored company to the researcher
ApiAssignments ==
    {[entity_type |-> "company", entity_id |-> 1, assigned_to |-> 3]}

InitApi ==
    /\ companies = <<Company(<<"a">>, <<"w">>, 1, NoId)>>
    /\ contacts = <<>>
    /\ batches = <<>>
    /\ requests = NoRequests
    /\ response = NoResponse
    /\ users = UserRows
    /\ assignments = <<>>
    /\ token = NoToken
    /\ current_user = NoId

PostCompanies ==
    /\ Len(companies) < MaxCompanies
    /\ \E tok \in ApiTokens, data \in ApiCompanyCreates :
          companies_create_company(tok, data)

\* the stored company of the segment, or an id that names no company
PostCompanyApprove ==
    \E tok \in ApiTokens, company_id \in {1, Len(companies) + 1},
       approval \in ApiCompanyApprovals :
          companies_approve_company(tok, company_id, approval)

PostContacts ==
    /\ Len(contacts) < MaxContacts
    /\ \E tok \in ApiTokens, data \in ApiContactCreates :
          contacts_create_contact(tok, data)

PostContactApprove ==
    \E tok \in ApiTokens, contact_id \in 1..(Len(contacts) + 1) :
          contacts_approve_contact(tok, contact_id, [status |-> APPROVED])

PostContactAssign ==
    \E tok \in ApiTokens, contact_id \in 1..(Len(contacts) + 1),
       assigned_sdr_id \in ApiSdrIds :
          contacts_assign_contact_to_sdr(tok, contact_id, assigned_sdr_id)

PostContactMeetingScheduled ==
    \E tok \in ApiTokens, contact_id \in 1..(Len(contacts) + 1) :
          contacts_mark_meeting_scheduled(tok, contact_id)

PostAssignments ==
    /\ Len(assignments) < MaxAssignments
    /\ \E tok \in ApiTokens, data \in ApiAssignments :
          assignments_create_assignment(tok, data)

GetAuthMe == \E tok \in ApiTokens : get_current_user_info(tok)

PostAuthRefresh == \E token_data \in RefreshBodies : refresh_token(token_data)

NextApi ==
    \/ PostCompanies
    \/ PostCompanyApprove
    \/ PostContacts
    \/ PostContactApprove
    \/ PostContactAssign
    \/ PostContactMeetingScheduled
    \/ PostAssignments
    \/ GetAuthMe
    \/ PostAuthRefresh

SpecApi == InitApi /\ [][NextApi]_vars

-----------------------------------------------------------------------------
(* Properties of the API *)

\* the roles that may use each gated endpoint
GatedRoles(op) ==
    IF op = "create_company" THEN {RESEARCHER, ADMIN}
    ELSE IF op \in {"approve_company", "approve_contact", "assign_to_sdr"}
    THEN {APPROVER, ADMIN}
    ELSE IF op = "mark_meeting_scheduled" THEN {SDR, APPROVER, ADMIN}
    ELSE {RESEARCHER, APPROVER, ADMIN}

GatedOps ==
    {"create_company", "approve_company", "approve_contact", "assign_to_sdr",
     "mark_meeting_scheduled", "create_contact"}

Handled(resp) == resp.error \notin {UNAUTHORIZED, FORBIDDEN, VALIDATION_ERROR}

\* the endpoints of the contacts router that name a contact
ContactOps == {"approve_contact", "assign_to_sdr", "mark_meeting_scheduled"}

\* the status a transition requires of the entity it names
RequiredBefore(op) ==
    IF op = "approve_company" THEN PENDING
    ELSE IF op = "approve_contact" THEN UPLOADED
    ELSE IF op = "assign_to_sdr" THEN APPROVED
    ELSE ASSIGNED_TO_SDR

\* the request named an id that does not exist
NamedNothing(resp) ==
    \/ resp.op = "approve_company" /\ get_company(companies, resp.id) = NoId
    \/ resp.op \in ContactOps /\ get_contact(contacts, resp.id) = NoId
    \/ resp.op = "create_contact" /\ resp.error = NOT_FOUND

\* the request asked for a transition the status of the entity does not allow
IllegalTransition(resp) ==
    \/ /\ resp.op = "approve_company"
       /\ get_company(companies, resp.id) # NoId
       /\ companies[resp.id].status # RequiredBefore(resp.op)
    \/ /\ resp.op \in ContactOps
       /\ get_contact(contacts, resp.id) # NoId
       /\ contacts[resp.id].status # RequiredBefore(resp.op)

\* C14: on every endpoint that names an entity, a request for an id that
\* does not exist (company approve, contact approve, assign and meeting
\* scheduled, contact creation for a missing company) is answered 404, a
\* request for an illegal transition of an existing entity is answered 400,
\* and in both cases no entity is modified.
C14_NotFound404IllegalTransition400 ==
    [][Handled(response')
        => /\ NamedNothing(response')
                => /\ StatusCode(response'.op, response'.error) = 404
                   /\ UNCHANGED <<companies, contacts>>
           /\ IllegalTransition(response')
                => /\ StatusCode(response'.op, response'.error) = 400
                   /\ UNCHANGED <<companies, contacts>>]_vars

\* C15: through the API, the approval of an uploaded contact by an approver
\* with body status=approved succeeds, then its assignment by an approver
\* to an SDR succeeds, then the mark of the meeting by that SDR succeeds,
\* and the contact ends in meeting_scheduled with the SDR of the assignment.
C15_ContactPipelineThroughApi ==
    [][(/\ response'.op \in ContactOps
        /\ current_user' # NoId
        /\ get_contact(contacts, response'.id) # NoId
        /\ contacts[response'.id].status = RequiredBefore(response'.op))
        => LET before == contacts[response'.id]
               after == contacts'[response'.id]
               roles == users[current_user'].roles
           IN  /\ (response'.op = "approve_contact" /\ APPROVER \in roles
                        /\ response'.arg = [status |-> APPROVED])
                    => /\ StatusCode(response'.op, response'.error) = 200
                       /\ after.status = APPROVED
               /\ (response'.op = "assign_to_sdr" /\ APPROVER \in roles)
                    => /\ StatusCode(response'.op, response'.error) = 200
                       /\ after.status = ASSIGNED_TO_SDR
                       /\ after.assigned_sdr_id = response'.arg
               /\ (response'.op = "mark_meeting_scheduled" /\ SDR \in roles)
                    => /\ StatusCode(response'.op, response'.error) = 200
                       /\ after.status = MEETING_SCHEDULED
                       /\ after.assigned_sdr_id = before.assigned_sdr_id]_vars

BearerOps == GatedOps \cup {"create_assignment", "get_current_user_info"}

\* C19: a refresh token is never accepted as bearer credential by
\* get_current_user; an access token presented to the refresh endpoint is
\* answered 401, with a detail saying that a refresh token is required when
\* the token decodes; and the refresh endpoint issues a new access token
\* only for a signed, unexpired refresh token of an existing active user.
C19_TokenTypesNotInterchangeable ==
    /\ (response.op \in BearerOps /\ token.type = REFRESH)
          => /\ current_user = NoId
             /\ StatusCode(response.op, response.error) = 401
    /\ (response.op = "refresh_token" /\ token.type = ACCESS)
          => /\ StatusCode(response.op, response.error) = 401
             /\ decode_token(token) # JWTError
                   => response.ret = REFRESH_REQUIRED_DETAIL
    /\ (response.op = "refresh_token" /\ response.error = OK)
          => /\ token.signed /\ ~token.expired
             /\ token.type = REFRESH
             /\ get_user_by_id(users, token.sub) # NoId
             /\ users[token.sub].status = ACTIVE
             /\ response.ret = create_access_token([sub |-> token.sub])

\* the approver's own refresh token, signed and unexpired, was presented as
\* bearer credential to the approval of a company and refused
C19_Witness ==
    /\ response.op = "approve_company"
    /\ token = create_refresh_token([sub |-> 4])
    /\ users[4].status = ACTIVE /\ APPROVER \in users[4].roles
    /\ response.error = UNAUTHORIZED
    /\ response.ret = ACCESS_REQUIRED_DETAIL

\* C20: an active user whose only role is approver creates an assignment of
\* a company to another user and is answered 201, and an active user whose
\* only role is researcher is answered 403 and creates none.
C20_ApproverCreatesAssignment ==
    [][(/\ response'.op = "create_assignment"
        /\ current_user' # NoId
        /\ users[current_user'].status = ACTIVE
        /\ response'.arg.entity_type = "company")
        => LET roles == users[current_user'].roles
               data == response'.arg
               added == Append(assignments,
                               Assignment(data.entity_type, data.entity_id,
                                          data.assigned_to, current_user'))
           IN  /\ (/\ roles = {APPROVER}
                   /\ data.assigned_to # current_user'
                   /\ AssignmentFlushOk(added, users))
                    => /\ StatusCode(response'.op, response'.error) = 201
                       /\ assignments' = added
               /\ roles = {RESEARCHER}
                    => /\ StatusCode(response'.op, response'.error) = 403
                       /\ UNCHANGED assignments]_vars

-----------------------------------------------------------------------------
(* Specification of the duplicate flag next to the status pipeline: the    *)
(* updates, the status transitions, mark_duplicate and the detectors        *)
(* applied to stored companies and contacts                                 *)

\* two pending companies of segment 1 with one dedup key and no contact, or
\* one approved company with two contacts of one email key
InitFlags ==
    /\ \/ /\ companies = <<Company(<<"a">>, <<"w">>, 1, NoId),
                           Company(<<"A">>, <<"w">>, 1, NoId)>>
          /\ contacts = <<>>
       \/ /\ companies = <<[Company(<<"a">>, <<"w">>, 1, NoId)
                                EXCEPT !.status = APPROVED]>>
          /\ contacts = <<Contact(<<"e", "@", "d">>, 1, 1, NoId),
                          Contact(<<"E", "@", "d">>, 1, 1, NoId)>>
    /\ batches = <<>>
    /\ requests = NoRequests
    /\ response = NoResponse
    /\ users = UserRows
    /\ assignments = <<>>
    /\ token = NoToken
    /\ current_user = NoId

NextFlags ==
    \/ UpdateCompany
    \/ ApproveCompany
    \/ MarkCompanyDuplicate
    \/ DetectCompanyDuplicates
    \/ UpdateContact
    \/ ApproveContact
    \/ AssignToSdrAction
    \/ BulkAssignToSdr
    \/ MarkMeetingScheduled
    \/ MarkContactDuplicate
    \/ DetectContactDuplicates

SpecFlags == InitFlags /\ [][NextFlags]_vars

-----------------------------------------------------------------------------
(* Properties of the duplicate flag next to the status pipeline *)

\* the step leaves every field of the row outside fields as it was
SameBut(before, after, fields) ==
    \A f \in (DOMAIN before) \ fields : after[f] = before[f]

-----------------------------------------------------------------------------
(* The administration of users next to login, refresh and /auth/me *)

\* the callers of the user endpoints: the admin, the approver and the admin
\* that starts deactivated, each with an access token issued earlier
UserAdminTokens == {create_access_token([sub |-> u]) : u \in {1, 4, 7}}

\* the users the requests name, one of them deleted
UserAdminTargets == {1, 4, 7, DeletedUserId}

\* bodies of PUT /users/{user_id}/roles
UserRolesUpdates == {{ADMIN}, {APPROVER}, {}}

\* forms of POST /auth/login: the email of the approver, of the admin that
\* starts deactivated, and of nobody, with the right or a wrong password
LoginForms ==
    [username : {4, 7, NoId}, password_verified : BOOLEAN]

InitUsers ==
    /\ companies = <<>>
    /\ contacts = <<>>
    /\ batches = <<>>
    /\ requests = NoRequests
    /\ response = NoResponse
    /\ users = UserRows
    /\ assignments = <<>>
    /\ token = NoToken
    /\ current_user = NoId

PostUserDeactivate ==
    \E tok \in UserAdminTokens, user_id \in UserAdminTargets :
        users_deactivate_user(tok, user_id)

PostUserActivate ==
    \E tok \in UserAdminTokens, user_id \in UserAdminTargets :
        users_activate_user(tok, user_id)

PutUserRoles ==
    \E tok \in UserAdminTokens, user_id \in UserAdminTargets,
       roles \in UserRolesUpdates :
        users_update_user_roles(tok, user_id, roles)

PostAuthLogin == \E form_data \in LoginForms : login(form_data)

NextUsers ==
    \/ PostUserDeactivate
    \/ PostUserActivate
    \/ PutUserRoles
    \/ PostAuthLogin
    \/ GetAuthMe
    \/ PostAuthRefresh

SpecUsers == InitUsers /\ [][NextUsers]_vars

\* the token is a signed, unexpired token of the type, of a user in the table
TokenOfUser(tok, type) ==
    /\ tok # NoToken
    /\ tok.signed /\ ~tok.expired
    /\ tok.type = type
    /\ tok.sub \in 1..Len(users)

\* C26: while a user is deactivated every request bearing an access token of
\* that user is answered 403 and changes nothing, a login as that user is
\* answered 401 without tokens and a refresh token of that user is answered
\* 401 without a new access token; while the user is active, after an
\* activation too, the access token is accepted by /auth/me, the login with
\* the right password yields the two tokens and the refresh token yields a
\* new access token.
C26_DeactivationTakesEffect ==
    [][/\ (/\ response'.op \in UserAdminOps \cup {"get_current_user_info"}
           /\ TokenOfUser(token', ACCESS))
          => IF users[token'.sub].status = DEACTIVATED
             THEN /\ StatusCode(response'.op, response'.error) = 403
                  /\ users' = users
             ELSE response'.op = "get_current_user_info"
                     => /\ StatusCode(response'.op, response'.error) = 200
                        /\ response'.id = token'.sub
       /\ (/\ response'.op = "login"
           /\ response'.arg.username \in 1..Len(users))
          => IF users[response'.arg.username].status = DEACTIVATED
             THEN /\ response'.error = UNAUTHORIZED
                  /\ StatusCode(response'.op, response'.error) = 401
                  /\ response'.ret = LOGIN_DETAIL
             ELSE response'.arg.password_verified
                     => /\ response'.error = OK
                        /\ response'.ret.access_token =
                              create_access_token([sub |-> response'.arg.username])
       /\ (/\ response'.op = "refresh_token"
           /\ TokenOfUser(token', REFRESH))
          => IF users[token'.sub].status = DEACTIVATED
             THEN /\ response'.error = UNAUTHORIZED
                  /\ StatusCode(response'.op, response'.error) = 401
             ELSE /\ response'.error = OK
                  /\ response'.ret = create_access_token([sub |-> token'.sub])
      ]_vars

\* the approver, active at first, was deactivated by an admin, and the
\* access token of the approver was then answered 403 by /auth/me
C26_Witness ==
    /\ response.op = "get_current_user_info"
    /\ token = create_access_token([sub |-> 4])
    /\ users[4].status = DEACTIVATED
    /\ response.error = FORBIDDEN

\* the admin that starts deactivated was activated, and the access token of
\* that admin was then accepted by /auth/me
ReactivatedIsAccepted ==
    /\ response.op = "get_current_user_info"
    /\ token = create_access_token([sub |-> 7])
    /\ users[7].status = ACTIVE
    /\ response.error = OK

-----------------------------------------------------------------------------
(* Concurrent requests of the administration of users: each request in its *)
(* own session, in any interleaving of its reads and of its commit         *)

\* the admins that call, by their access tokens
UserRaceTokens == {create_access_token([sub |-> u]) : u \in {1, 7}}

\* the users the requests name
UserRaceTargets == {1, 7}

\* bodies of PUT /users/{user_id}/roles
UserRaceRoles == {{ADMIN}, {APPROVER}}

\* one active admin, or both admins active
InitUserRace ==
    /\ companies = <<>>
    /\ contacts = <<>>
    /\ batches = <<>>
    /\ requests = NoRequests
    /\ response = NoResponse
    /\ users \in {UserRows, [UserRows EXCEPT ![7].status = ACTIVE]}
    /\ assignments = <<>>
    /\ token = NoToken
    /\ current_user = NoId

UserAdminLoad ==
    \E r \in Requests, tok \in UserRaceTokens, user_id \in UserRaceTargets :
        /\ NextToArrive(r)
        /\ \/ user_admin_load(r, tok, "deactivate_user", user_id, {})
           \/ user_admin_load(r, tok, "activate_user", user_id, {})
           \/ \E roles \in UserRaceRoles :
                 user_admin_load(r, tok, "update_user_roles", user_id, roles)

UserAdminFlush == \E r \in Requests : user_admin_flush(r)

NextUserRace == UserAdminLoad \/ UserAdminFlush

SpecUserRace == InitUserRace /\ [][NextUserRace]_vars

\* C29: in every state reached by deactivate_user, activate_user and
\* update_user_roles requests, in sequence or interleaved, some active user
\* holds the admin role.
C29_AnActiveAdminRemains ==
    \E u \in 1..Len(users) :
        users[u].status = ACTIVE /\ ADMIN \in users[u].roles

\* a request that is answered acts for a caller that is an active admin
\* when the request starts, and never deactivates its caller or takes the
\* admin role from its caller
CallerWasAuthorised ==
    [][\A r \in Requests :
          (requests[r].pc = "idle" /\ requests'[r].pc = "loaded")
              => LET caller == requests'[r].loaded IN
                 /\ users[caller].status = ACTIVE
                 /\ ADMIN \in users[caller].roles
                 /\ ~(requests'[r].op = "deactivate_user" /\ requests'[r].id = caller)
                 /\ ~(/\ requests'[r].op = "update_user_roles"
                      /\ requests'[r].id = caller
                      /\ ADMIN \notin requests'[r].arg)]_vars

-----------------------------------------------------------------------------
(* Contacts and companies of two segments under create_contact, the upload *)
(* of a contact file, update_contact and update_company                    *)

\* bodies of PATCH /contacts/{contact_id}: ContactUpdate declares company_id
SegmentContactUpdateBodies ==
    {[email |-> <<"E", "@", "d">>], [company_id |-> 1], [company_id |-> 2]}

\* bodies of PATCH /companies/{company_id}: CompanyUpdate declares segment_id
SegmentCompanyUpdateBodies ==
    {[company_name |-> <<"A">>], [segment_id |-> 1], [segment_id |-> 2]}

\* a contact file with one valid row of company "a"
SegmentContactFile ==
    <<[first_name |-> <<"f">>, email |-> <<"b", "@", "d">>, company_name |-> <<"a">>]>>

InitSegments ==
    /\ companies = <<Company(<<"a">>, <<"w">>, 1, NoId),
                     Company(<<"b">>, <<"w">>, 2, NoId)>>
    /\ contacts = <<>>
    /\ batches = <<>>
    /\ requests = NoRequests
    /\ response = NoResponse
    /\ users = UserRows
    /\ assignments = <<>>
    /\ token = NoToken
    /\ current_user = NoId

SegmentCreateContact ==
    /\ Len(contacts) < MaxContacts
    /\ \E data \in ContactCreates : create_contact(data)
    /\ UNCHANGED <<token, current_user>>

SegmentUploadContacts ==
    /\ Len(contacts) < MaxContacts
    /\ UploadAllowed(SegmentContactFile)
    /\ \/ upload_contacts(CsvUpload(SegmentContactFile), 1, NoId)
       \/ upload_contacts(CsvUpload(SegmentContactFile), NoId, 1)
    /\ UNCHANGED <<token, current_user>>

SegmentUpdateContact ==
    \E contact_id \in ContactIdsNamed, body \in SegmentContactUpdateBodies :
        /\ update_contact(contact_id, body)
        /\ UNCHANGED <<token, current_user>>

SegmentUpdateCompany ==
    \E company_id \in 1..(Len(companies) + 1), body \in SegmentCompanyUpdateBodies :
        /\ update_company(company_id, body)
        /\ UNCHANGED <<token, current_user>>

NextSegments ==
    \/ SegmentCreateContact
    \/ SegmentUploadContacts
    \/ SegmentUpdateContact
    \/ SegmentUpdateCompany

SpecSegments == InitSegments /\ [][NextSegments]_vars

\* C30: in every state reached by create_contact, the upload of a contact
\* file, update_contact and update_company, a contact of a company has the
\* segment_id of that company.
C30_UpdatesKeepTheSegment ==
    \A i \in 1..Len(contacts), c \in 1..Len(companies) :
        contacts[i].company_id = c
            => contacts[i].segment_id = companies[c].segment_id

\* without a company_id in the body of update_contact and without a
\* segment_id in the body of update_company the steps keep the segments
\* equal
SegmentKeptByOtherBodies ==
    [][(/\ C30_UpdatesKeepTheSegment
        /\ response'.op \in {"create_contact", "upload_contacts",
                             "update_contact", "update_company"}
        /\ \A i \in 1..Len(contacts) :
              contacts'[i].company_id = contacts[i].company_id
        /\ \A c \in 1..Len(companies) :
              companies'[c].segment_id = companies[c].segment_id)
          => C30_UpdatesKeepTheSegment']_vars

====
